---- MODULE Spec2Model ----
(***************************************************************************)
(* Heimdall SBOM validation scripts: the CycloneDX validator of            *)
(* complete_cyclonedx_validation.py, the reference documents of            *)
(* create_perfect_test_data.py and the validators of the other scripts.    *)
(*                                                                         *)
(* JSON objects are functions from key strings to values, JSON arrays are  *)
(* sequences, JSON strings are strings.  A value the source probes with    *)
(* isinstance (supplier, tools, an entity's url, the version of a          *)
(* document) is a record [t |-> type name, v |-> value], the type name     *)
(* being that of the Python value: str, dict, list, int, bool, float or    *)
(* NoneType.  The value of a float is its repr text, that of None the      *)
(* text None.                                                              *)
(*                                                                         *)
(* Every issue the source appends begins with the same marker glyph and a  *)
(* blank; the issue strings of the model are the text that follows it.     *)
(* stdout is the number of calls of print made so far; each call writes    *)
(* to sys.stdout.                                                          *)
(***************************************************************************)
EXTENDS Integers, Sequences, FiniteSets, TLC

VARIABLES data, version, pc, issues, bom_refs, errors, warnings, report,
          other, versions, all_passed, sbom_content, result, calls, files,
          total_tests, passed_tests, stdout

vars ==
  <<data, version, pc, issues, bom_refs, errors, warnings, report, other,
    versions, all_passed,
    sbom_content, result, calls, files, total_tests, passed_tests, stdout>>

(***************************************************************************)
(* Python str and re primitives                                            *)
(***************************************************************************)
Char(s, i) == SubSeq(s, i, i)

Has(d, k) == k \in DOMAIN d

Idx(i) == ToString(i - 1)

RECURSIVE Flatten(_)
Flatten(ss) == IF ss = <<>> THEN <<>> ELSE Head(ss) \o Flatten(Tail(ss))

startswith(s, p) == Len(s) >= Len(p) /\ SubSeq(s, 1, Len(p)) = p

\* The characters of code points 32..95 and 97..126, in code point order.
PrintableLow ==
  " !" \o "\"" \o "#$%&'()*+,-./0123456789:;<=>?@"
  \o "ABCDEFGHIJKLMNOPQRSTUVWXYZ[" \o "\\" \o "]^_"

PrintableHigh == "abcdefghijklmnopqrstuvwxyz{|}~"

IndexIn(s, c) == CHOOSE i \in 1..Len(s) : Char(s, i) = c

\* Tab, newline, form feed and carriage return are the control characters
\* a string holds here.
ord(c) ==
  IF c = "\t" THEN 9
  ELSE IF c = "\n" THEN 10
  ELSE IF c = "\f" THEN 12
  ELSE IF c = "\r" THEN 13
  ELSE IF \E i \in 1..Len(PrintableHigh) : Char(PrintableHigh, i) = c
  THEN 96 + IndexIn(PrintableHigh, c)
  ELSE 31 + IndexIn(PrintableLow, c)

RECURSIVE str_lt(_, _)
str_lt(a, b) ==
  IF b = "" THEN FALSE
  ELSE IF a = "" THEN TRUE
  ELSE IF Head(a) = Head(b) THEN str_lt(Tail(a), Tail(b))
  ELSE ord(Head(a)) < ord(Head(b))

str_ge(a, b) == ~str_lt(a, b)

\* lo <= n <= hi
Between(n, lo, hi) == n >= lo /\ n <= hi

IsDigit(c) == c # "" /\ Between(ord(c), 48, 57)

IsLower(c) == c # "" /\ Between(ord(c), 97, 122)

IsUpper(c) == c # "" /\ Between(ord(c), 65, 90)

HexLowerCode(n) == Between(n, 48, 57) \/ Between(n, 97, 102)

IsHexLower(c) == c # "" /\ HexLowerCode(ord(c))

HexCode(n) == HexLowerCode(n) \/ Between(n, 65, 70)

IsHex(c) == c # "" /\ HexCode(ord(c))

AlnumCode(n) == Between(n, 48, 57) \/ Between(n, 65, 90) \/ Between(n, 97, 122)

IsAlnum(c) == c # "" /\ AlnumCode(ord(c))

lower(c) == IF IsUpper(c) THEN Char(PrintableHigh, ord(c) - 64) ELSE c

AllChars(s, P(_)) == \A i \in 1..Len(s) : P(Char(s, i))

\* The dollar anchor of re: the end of the string, or just before a newline
\* that ends it.
AtEnd(s, n) == Len(s) = n \/ (Len(s) = n + 1 /\ Char(s, n + 1) = "\n")

\* ^[a-fA-F0-9]{n}$
match_hex(content, n) ==
  /\ Len(content) >= n
  /\ AllChars(SubSeq(content, 1, n), IsHex)
  /\ AtEnd(content, n)

\* ^urn:uuid:[0-9a-f]{8}-[0-9a-f]{4}-[0-9a-f]{4}-[0-9a-f]{4}-[0-9a-f]{12}$
\* under re.IGNORECASE
match_uuid(s) ==
  /\ Len(s) >= 45
  /\ \A i \in 1..9 : lower(Char(s, i)) = Char("urn:uuid:", i)
  /\ \A i \in 10..45 :
       IF i \in {18, 23, 28, 33} THEN Char(s, i) = "-" ELSE IsHex(Char(s, i))
  /\ AtEnd(s, 45)

IsMimeChar(c) == c \in {"-", "+", "."} \/ IsLower(c) \/ IsDigit(c)

\* ^[-+a-z0-9.]+/[-+a-z0-9.]+$
match_mime(s) ==
  \E k \in 2..Len(s) - 1 :
    /\ Char(s, k) = "/"
    /\ AllChars(SubSeq(s, 1, k - 1), IsMimeChar)
    /\ \E n \in k + 1..Len(s) :
         /\ AllChars(SubSeq(s, k + 1, n), IsMimeChar)
         /\ AtEnd(s, n)

NotAt(c) == c # "@"

\* ^[^@]+@[^@]+\.[^@]+$
match_email(s) ==
  \E p \in 2..Len(s) - 3 :
    /\ Char(s, p) = "@"
    /\ AllChars(SubSeq(s, 1, p - 1), NotAt)
    /\ AllChars(SubSeq(s, p + 1, Len(s)), NotAt)
    /\ \E q \in p + 2..Len(s) - 1 : Char(s, q) = "."

RECURSIVE Contains(_, _)
Contains(s, sub) ==
  IF Len(s) < Len(sub) THEN FALSE
  ELSE startswith(s, sub) \/ Contains(Tail(s), sub)

(***************************************************************************)
(* datetime.fromisoformat of Python 3.11, applied to the string with each  *)
(* Z replaced by +00:00; TRUE when it parses.  Positions are counted from  *)
(* 0 as the parser counts them; the character after the last one is the    *)
(* terminating NUL, written "" here.                                       *)
(***************************************************************************)
RECURSIVE replace_Z(_)
replace_Z(s) ==
  IF s = "" THEN ""
  ELSE (IF Head(s) = "Z" THEN "+00:00" ELSE Head(s)) \o replace_Z(Tail(s))

digit_value(c) == CHOOSE d \in 0..9 : Char("0123456789", d + 1) = c

RECURSIVE Num(_)
Num(s) ==
  IF s = "" THEN 0
  ELSE 10 * Num(SubSeq(s, 1, Len(s) - 1)) + digit_value(Char(s, Len(s)))

ch(s, p) == IF p >= 0 /\ p < Len(s) THEN Char(s, p + 1) ELSE ""

\* parse_digits: exactly n decimal digits from position p
parse_digits(s, p, n) == \A i \in 0..n - 1 : IsDigit(ch(s, p + i))

digits_value(s, p, n) == Num(SubSeq(s, p + 1, p + n))

is_leap(y) == y % 4 = 0 /\ (y % 100 # 0 \/ y % 400 = 0)

days_in_month(y, m) ==
  IF m = 2 THEN (IF is_leap(y) THEN 29 ELSE 28)
  ELSE IF m \in {4, 6, 9, 11} THEN 30 ELSE 31

RECURSIVE days_before_month(_, _)
days_before_month(y, m) ==
  IF m <= 1 THEN 0
  ELSE days_before_month(y, m - 1) + days_in_month(y, m - 1)

days_before_year(year) ==
  (year - 1) * 365 + ((year - 1) \div 4) - ((year - 1) \div 100)
    + ((year - 1) \div 400)

ymd_to_ord(y, m, d) == days_before_year(y) + days_before_month(y, m) + d

weekday(y, m, d) == (ymd_to_ord(y, m, d) + 6) % 7

week1_monday(first_day, first_weekday) ==
  IF first_weekday > 3 THEN first_day - first_weekday + 7
  ELSE first_day - first_weekday

iso_week1_monday(year) ==
  week1_monday(ymd_to_ord(year, 1, 1), weekday(year, 1, 1))

\* the ordinal of the last day datetime knows
MAXORDINAL == ymd_to_ord(9999, 12, 31)

\* iso_to_ymd succeeds and gives a date datetime accepts (ordinal in range)
iso_to_ymd(iso_year, iso_week, iso_day) ==
  /\ \/ iso_week \in 1..52
     \/ /\ iso_week = 53
        /\ \/ weekday(iso_year, 1, 1) = 3
           \/ (weekday(iso_year, 1, 1) = 2 /\ is_leap(iso_year))
  /\ iso_day \in 1..7
  /\ iso_week1_monday(iso_year) + (iso_week - 1) * 7 + iso_day - 1
       \in 1..MAXORDINAL

\* the first position from idx on that holds no digit
RECURSIVE digits_end(_, _)
digits_end(s, idx) ==
  IF idx < Len(s) /\ IsDigit(ch(s, idx)) THEN digits_end(s, idx + 1) ELSE idx

basic_week_separator(idx) ==
  IF idx < 9 THEN idx ELSE IF idx % 2 = 0 THEN 7 ELSE 8

\* _find_isoformat_datetime_separator: the position of the separator
\* between date and time, -1 when the week date is cut short
find_isoformat_datetime_separator(s) ==
  IF Len(s) = 7 THEN 7
  ELSE IF ch(s, 4) = "-"
  THEN IF ch(s, 5) = "W"
       THEN IF Len(s) < 8 THEN -1
            ELSE IF Len(s) > 8 /\ ch(s, 8) = "-"
            THEN IF Len(s) = 9 THEN -1
                 ELSE IF Len(s) > 10 /\ IsDigit(ch(s, 10)) THEN 8
                 ELSE 10
            ELSE 8
       ELSE 10
  ELSE IF ch(s, 4) = "W" THEN basic_week_separator(digits_end(s, 7))
  ELSE 8

separator_width(uses_separator) == IF uses_separator THEN 1 ELSE 0

\* the week date from the W at position p on
parse_week_date(s, len, year, uses_separator, p) ==
  /\ parse_digits(s, p + 1, 2)
  /\ IF p + 3 < len
     THEN /\ uses_separator => ch(s, p + 3) = "-"
          /\ parse_digits(s, p + 3 + separator_width(uses_separator), 1)
          /\ iso_to_ymd(year, digits_value(s, p + 1, 2),
               digits_value(s, p + 3 + separator_width(uses_separator), 1))
     ELSE iso_to_ymd(year, digits_value(s, p + 1, 2), 1)

\* month and day from position p on, with the range check of the date
\* constructor
parse_month_day(s, year, uses_separator, p) ==
  /\ parse_digits(s, p, 2)
  /\ uses_separator => ch(s, p + 2) = "-"
  /\ parse_digits(s, p + 2 + separator_width(uses_separator), 2)
  /\ year \in 1..9999
  /\ digits_value(s, p, 2) \in 1..12
  /\ digits_value(s, p + 2 + separator_width(uses_separator), 2)
       \in 1..days_in_month(year, digits_value(s, p, 2))

parse_after_year(s, len, year, uses_separator, p) ==
  IF ch(s, p) = "W" THEN parse_week_date(s, len, year, uses_separator, p)
  ELSE parse_month_day(s, year, uses_separator, p)

\* parse_isoformat_date on the first len characters
parse_isoformat_date(s, len) ==
  /\ parse_digits(s, 0, 4)
  /\ IF ch(s, 4) = "-"
     THEN parse_after_year(s, len, digits_value(s, 0, 4), TRUE, 5)
     ELSE parse_after_year(s, len, digits_value(s, 0, 4), FALSE, 4)

Unparsed == [rv |-> -1, p |-> 0, vals |-> <<0, 0, 0>>]

\* The loop of parse_hh_mm_ss_ff over hour, minute and second, after the
\* two digits of field i are read: c is the character that follows them.
\* rv is -1 for a parse error, 0 when the string ends with the field read,
\* 1 when the portion ends and more follows, 2 when a fraction is to be
\* read at p.
RECURSIVE hh_mm_ss(_, _, _, _, _, _)
hh_mm_ss_next(s, p, p_end, i, has_separator, vals, c) ==
  IF p >= p_end THEN [rv |-> IF c # "" THEN 1 ELSE 0, p |-> p, vals |-> vals]
  ELSE IF has_separator /\ c = ":"
  THEN hh_mm_ss(s, p, p_end, i + 1, has_separator, vals)
  ELSE IF c \in {".", ","} THEN [rv |-> 2, p |-> p, vals |-> vals]
  ELSE IF ~has_separator
  THEN hh_mm_ss(s, p - 1, p_end, i + 1, has_separator, vals)
  ELSE Unparsed

hh_mm_ss(s, p, p_end, i, has_separator, vals) ==
  IF i = 3 THEN [rv |-> 2, p |-> p, vals |-> vals]
  ELSE IF ~parse_digits(s, p, 2) THEN Unparsed
  ELSE hh_mm_ss_next(s, p + 3, p_end, i,
         IF i = 0 THEN ch(s, p + 2) = ":" ELSE has_separator,
         [vals EXCEPT ![i + 1] = digits_value(s, p, 2)], ch(s, p + 2))

\* the fraction: to_parse digits that count, then any number of digits
parse_fraction(s, read, to_parse) ==
  IF ~parse_digits(s, read.p, to_parse) THEN Unparsed
  ELSE [rv   |-> IF ch(s, digits_end(s, read.p + to_parse)) # ""
                 THEN 1 ELSE 0,
        p    |-> digits_end(s, read.p + to_parse),
        vals |-> read.vals]

hh_mm_ss_ff(s, p_end, read) ==
  IF read.rv # 2 THEN read
  ELSE parse_fraction(s, read,
         IF p_end - read.p >= 6 THEN 6 ELSE p_end - read.p)

\* parse_hh_mm_ss_ff: the value of the fraction is below one second and is
\* left out
parse_hh_mm_ss_ff(s, p, p_end) ==
  hh_mm_ss_ff(s, p_end, hh_mm_ss(s, p, p_end, 0, TRUE, <<0, 0, 0>>))

\* the position of the first Z, + or - from t on, p_end or more when none
RECURSIVE tzinfo_pos(_, _, _)
tzinfo_pos(s, t, p_end) ==
  IF ch(s, t) \in {"Z", "+", "-"} THEN t
  ELSE IF t + 1 < p_end THEN tzinfo_pos(s, t + 1, p_end)
  ELSE t + 1

\* the offset parses to the end and timezone accepts it: strictly below
\* 24 hours
utcoffset_accepted(offset) ==
  /\ offset.rv = 0
  /\ offset.vals[1] * 3600 + offset.vals[2] * 60 + offset.vals[3] < 24 * 3600

time_accepted(s, p_end, tz, time) ==
  /\ time.rv >= 0
  /\ IF tz = p_end THEN time.rv # 1
     ELSE IF ch(s, tz) = "Z" THEN ch(s, tz + 1) = ""
     ELSE utcoffset_accepted(parse_hh_mm_ss_ff(s, tz + 1, p_end))
  /\ time.vals[1] <= 23 /\ time.vals[2] <= 59 /\ time.vals[3] <= 59

parse_time_before(s, p, p_end, tz) ==
  time_accepted(s, p_end, tz, parse_hh_mm_ss_ff(s, p, tz))

\* parse_isoformat_time from position p to the end of the string, with the
\* range checks of the time and timezone constructors
parse_isoformat_time(s, p, p_end) ==
  parse_time_before(s, p, p_end, tzinfo_pos(s, p, p_end))

parse_at_separator(s, separator_location) ==
  /\ separator_location >= 0
  /\ parse_isoformat_date(s, separator_location)
  /\ Len(s) > separator_location =>
       parse_isoformat_time(s, separator_location + 1, Len(s))

fromisoformat(s) ==
  /\ Len(s) >= 7
  /\ parse_at_separator(s, find_isoformat_datetime_separator(s))

valid_timestamp(s) == fromisoformat(replace_Z(s))

(***************************************************************************)
(* is_valid_url: urllib.parse.urlparse of Python 3.11 gives a scheme and a *)
(* netloc and raises nothing.  Of the parse result only the scheme and the *)
(* netloc are kept, the two fields is_valid_url reads.                     *)
(***************************************************************************)
RECURSIVE find(_, _, _)
find(s, cs, from) ==
  IF from > Len(s) THEN 0
  ELSE IF Char(s, from) \in cs THEN from
  ELSE find(s, cs, from + 1)

IsSchemeChar(c) == IsAlnum(c) \/ c \in {"+", "-", "."}

\* url.lstrip(_WHATWG_C0_CONTROL_OR_SPACE)
RECURSIVE lstrip_c0_control_or_space(_)
lstrip_c0_control_or_space(s) ==
  IF s # "" /\ Head(s) \in {" ", "\t", "\n", "\f", "\r"}
  THEN lstrip_c0_control_or_space(Tail(s)) ELSE s

\* for b in _UNSAFE_URL_BYTES_TO_REMOVE: url = url.replace(b, "")
RECURSIVE remove_unsafe_bytes(_)
remove_unsafe_bytes(s) ==
  IF s = "" THEN ""
  ELSE (IF Head(s) \in {"\t", "\r", "\n"} THEN "" ELSE Head(s))
         \o remove_unsafe_bytes(Tail(s))

RECURSIVE str_lower(_)
str_lower(s) == IF s = "" THEN "" ELSE lower(Head(s)) \o str_lower(Tail(s))

\* s.split(c)
RECURSIVE split(_, _)
split(s, c) ==
  IF find(s, {c}, 1) = 0 THEN <<s>>
  ELSE <<SubSeq(s, 1, find(s, {c}, 1) - 1)>>
         \o split(SubSeq(s, find(s, {c}, 1) + 1, Len(s)), c)

\* '%x' % n
RECURSIVE format_x(_)
format_x(n) ==
  IF n < 16 THEN Char("0123456789abcdef", n + 1)
  ELSE format_x(n \div 16) \o Char("0123456789abcdef", (n % 16) + 1)

\* IPv4Address._parse_octet raises nothing
parse_octet(octet_str) ==
  /\ octet_str # ""
  /\ AllChars(octet_str, IsDigit)
  /\ Len(octet_str) <= 3
  /\ octet_str # "0" => Char(octet_str, 1) # "0"
  /\ Num(octet_str) <= 255

parse_octets(octets) ==
  Len(octets) = 4 /\ \A i \in 1..4 : parse_octet(octets[i])

\* ipaddress.IPv4Address(address) raises nothing
IPv4Address(address) ==
  /\ find(address, {"/"}, 1) = 0
  /\ address # ""
  /\ parse_octets(split(address, "."))

\* the two hextets that stand for a dotted last part
ipv4_hextets(octets) ==
  <<format_x(Num(octets[1]) * 256 + Num(octets[2])),
    format_x(Num(octets[3]) * 256 + Num(octets[4]))>>

\* IPv6Address._parse_hextet raises nothing
parse_hextet(hextet_str) ==
  /\ AllChars(hextet_str, IsHex)
  /\ Len(hextet_str) <= 4
  /\ hextet_str # ""

\* the hextets on both sides of the one double colon
parse_skipped(parts, parts_hi, parts_lo) ==
  /\ parts[1] = "" => parts_hi = 0
  /\ parts[Len(parts)] = "" => parts_lo = 0
  /\ 8 - (parts_hi + parts_lo) >= 1
  /\ \A i \in 1..parts_hi : parse_hextet(parts[i])
  /\ \A i \in Len(parts) - parts_lo + 1..Len(parts) : parse_hextet(parts[i])

\* skips holds the positions, counted from 0, of the empty parts that are
\* neither the first nor the last
parse_parts(parts, skips) ==
  /\ Len(parts) <= 9
  /\ Cardinality(skips) <= 1
  /\ IF skips # {}
     THEN parse_skipped(parts,
            IF parts[1] = "" THEN (CHOOSE i \in skips : TRUE) - 1
            ELSE CHOOSE i \in skips : TRUE,
            IF parts[Len(parts)] = ""
            THEN Len(parts) - (CHOOSE i \in skips : TRUE) - 2
            ELSE Len(parts) - (CHOOSE i \in skips : TRUE) - 1)
     ELSE /\ Len(parts) = 8
          /\ parts[1] # "" /\ parts[Len(parts)] # ""
          /\ \A i \in 1..Len(parts) : parse_hextet(parts[i])

parse_hextets(parts) ==
  parse_parts(parts, {i \in 1..Len(parts) - 2 : parts[i + 1] = ""})

\* dotted is TRUE when the last part holds a full stop: it is then an
\* IPv4 address, and its two hextets take its place
parse_split(parts, dotted) ==
  /\ Len(parts) >= 3
  /\ dotted => IPv4Address(parts[Len(parts)])
  /\ parse_hextets(IF dotted
                   THEN SubSeq(parts, 1, Len(parts) - 1)
                          \o ipv4_hextets(split(parts[Len(parts)], "."))
                   ELSE parts)

parse_parts_of(parts) ==
  parse_split(parts, find(parts[Len(parts)], {"."}, 1) > 0)

\* IPv6Address._ip_int_from_string(ip_str) raises nothing
ipv6_ip_int_from_string(ip_str) ==
  ip_str # "" /\ parse_parts_of(split(ip_str, ":"))

\* _split_scope_id: sep is the position of the first percent sign, 0 when
\* there is none; the scope id after it is not empty and holds no percent
\* sign
split_scope_id(ip_str, sep) ==
  IF sep = 0 THEN ipv6_ip_int_from_string(ip_str)
  ELSE /\ sep < Len(ip_str)
       /\ find(ip_str, {"%"}, sep + 1) = 0
       /\ ipv6_ip_int_from_string(SubSeq(ip_str, 1, sep - 1))

\* ipaddress.IPv6Address(address) raises nothing
IPv6Address(address) ==
  /\ find(address, {"/"}, 1) = 0
  /\ split_scope_id(address, find(address, {"%"}, 1))

\* re.match(r"\Av[a-fA-F0-9]+\..+\Z", hostname), on a string without
\* newline; dot is the position of the first full stop
match_ipvfuture(hostname, dot) ==
  /\ startswith(hostname, "v")
  /\ dot > 2
  /\ AllChars(SubSeq(hostname, 2, dot - 1), IsHex)
  /\ Len(hostname) > dot

\* _check_bracketed_host raises nothing: ip_address gives an IPv6Address,
\* as a string that IPv4Address takes is turned down
check_bracketed_host(hostname) ==
  IF startswith(hostname, "v")
  THEN match_ipvfuture(hostname, find(hostname, {"."}, 1))
  ELSE ~IPv4Address(hostname) /\ IPv6Address(hostname)

\* s.partition(c)[2]
after_first(s, c) ==
  IF find(s, {c}, 1) = 0 THEN ""
  ELSE SubSeq(s, find(s, {c}, 1) + 1, Len(s))

\* s.partition(c)[0]
before_first(s, c) ==
  IF find(s, {c}, 1) = 0 THEN s ELSE SubSeq(s, 1, find(s, {c}, 1) - 1)

\* _splitnetloc(url, 2)[0]
splitnetloc(url) ==
  SubSeq(url, 3, IF find(url, {"/", "?", "#"}, 3) = 0 THEN Len(url)
                 ELSE find(url, {"/", "?", "#"}, 3) - 1)

\* the checks of urlsplit on the netloc; raises is TRUE for a ValueError
split_result(scheme, netloc) ==
  [raises |->
     \/ (find(netloc, {"["}, 1) > 0) # (find(netloc, {"]"}, 1) > 0)
     \/ /\ find(netloc, {"["}, 1) > 0
        /\ find(netloc, {"]"}, 1) > 0
        /\ ~check_bracketed_host(
              before_first(after_first(netloc, "["), "]")),
   scheme |-> scheme,
   netloc |-> netloc]

split_netloc(scheme, url) ==
  split_result(scheme, IF startswith(url, "//") THEN splitnetloc(url) ELSE "")

\* i is the position of the first colon, 0 when there is none; has_scheme
\* is TRUE when the text before it is taken as the scheme
split_scheme(url, i, has_scheme) ==
  split_netloc(IF has_scheme THEN str_lower(SubSeq(url, 1, i - 1)) ELSE "",
               IF has_scheme THEN SubSeq(url, i + 1, Len(url)) ELSE url)

split_at_colon(url, i) ==
  split_scheme(url, i,
    /\ i > 1
    /\ (IsLower(Char(url, 1)) \/ IsUpper(Char(url, 1)))
    /\ AllChars(SubSeq(url, 1, i - 1), IsSchemeChar))

split_cleaned(url) == split_at_colon(url, find(url, {":"}, 1))

urlsplit(url) ==
  split_cleaned(remove_unsafe_bytes(lstrip_c0_control_or_space(url)))

urlparse(url) == urlsplit(url)

valid_result(parsed) ==
  ~parsed.raises /\ parsed.scheme # "" /\ parsed.netloc # ""

is_valid_url(url) == valid_result(urlparse(url))

(***************************************************************************)
(* Validators of complete_cyclonedx_validation.py.  Each returns the       *)
(* sequence of issues it appends, in the order it appends them.            *)
(***************************************************************************)
EmptyDict == [k \in {} |-> 0]

\* for i, x in enumerate(xs): issues.extend(f(x, i))
ForEach(xs, f(_, _)) == Flatten([i \in 1..Len(xs) |-> f(xs[i], i)])

\* bool is a subclass of int.
isinstance(x, t) == x.t = t \/ (t = "int" /\ x.t = "bool")

valid_algorithms ==
  <<"MD5", "SHA-1", "SHA-256", "SHA-384", "SHA-512",
    "SHA3-256", "SHA3-384", "SHA3-512",
    "BLAKE2b-256", "BLAKE2b-384", "BLAKE2b-512", "BLAKE3">>

Range(q) == {q[i] : i \in 1..Len(q)}

\* The repetition count of the pattern of each algorithm.
patterns(alg) ==
  CASE alg = "MD5" -> 32
    [] alg = "SHA-1" -> 40
    [] alg = "SHA-256" -> 64
    [] alg = "SHA-384" -> 96
    [] alg = "SHA-512" -> 128
    [] alg = "SHA3-256" -> 64
    [] alg = "SHA3-384" -> 96
    [] alg = "SHA3-512" -> 128
    [] alg = "BLAKE2b-256" -> 64
    [] alg = "BLAKE2b-384" -> 96
    [] alg = "BLAKE2b-512" -> 128
    [] alg = "BLAKE3" -> 64

validate_hash_object(hash_obj, path) ==
  IF ~Has(hash_obj, "alg") \/ ~Has(hash_obj, "content")
  THEN <<path \o " missing required fields (alg, content)">>
  ELSE IF hash_obj.alg \notin Range(valid_algorithms)
  THEN <<path \o " invalid algorithm: " \o hash_obj.alg>>
  ELSE IF ~match_hex(hash_obj.content, patterns(hash_obj.alg))
  THEN <<path \o " invalid " \o hash_obj.alg \o " hash content format">>
  ELSE <<>>

valid_reference_types ==
  {"vcs", "issue-tracker", "website", "advisories", "bom",
   "mailing-list", "social", "chat", "documentation", "support",
   "distribution", "license", "build-meta", "build-system",
   "release-notes", "other"}

validate_external_reference(ref, path) ==
  IF ~Has(ref, "url") \/ ~Has(ref, "type")
  THEN <<path \o " missing required fields (url, type)">>
  ELSE
    (IF ref.type \notin valid_reference_types
     THEN <<path \o " invalid type: " \o ref.type>> ELSE <<>>)
    \o (IF ~is_valid_url(ref.url)
        THEN <<path \o " invalid URL format">> ELSE <<>>)
    \o (IF Has(ref, "hashes")
        THEN LET h(x, i) ==
                   validate_hash_object(x, path \o ".hashes[" \o Idx(i) \o "]")
             IN  ForEach(ref.hashes, h)
        ELSE <<>>)

license_expression_ok(expr) ==
  \/ \E op \in {"AND", "OR", "WITH"} : Contains(expr, op)
  \/ ~Contains(expr, " ")

\* Variant: a choice with both license and expression let through.
license_or_expression_at_least_one(license_choice, path) ==
  IF ~Has(license_choice, "license") /\ ~Has(license_choice, "expression")
  THEN <<path \o " must have either 'license' or 'expression'">>
  ELSE <<>>

\* The license / expression alternative of a license choice.
license_or_expression(license_choice, path) ==
  LET has_license    == Has(license_choice, "license")
      has_expression == Has(license_choice, "expression")
  IN  IF ~has_license /\ ~has_expression
      THEN <<path \o " must have either 'license' or 'expression'">>
      ELSE IF has_license /\ has_expression
      THEN <<path \o " cannot have both 'license' and 'expression'">>
      ELSE <<>>

validate_license_choice(license_choice, path) ==
  LET has_license    == Has(license_choice, "license")
      has_expression == Has(license_choice, "expression")
  IN  license_or_expression(license_choice, path)
      \o (IF has_license
             /\ ~Has(license_choice.license, "id")
             /\ ~Has(license_choice.license, "name")
          THEN <<path \o ".license must have either 'id' or 'name'">>
          ELSE <<>>)
      \o (IF has_expression /\ ~license_expression_ok(license_choice.expression)
          THEN <<path \o ".expression may be invalid SPDX format">>
          ELSE <<>>)

validate_organizational_contact(contact, path) ==
  IF Has(contact, "email") /\ ~match_email(contact.email)
  THEN <<path \o " invalid email format">>
  ELSE <<>>

validate_organizational_entity(entity, path) ==
  (IF ~Has(entity, "name")
   THEN <<path \o " missing required 'name' field">> ELSE <<>>)
  \o (IF Has(entity, "url")
      THEN IF ~isinstance(entity.url, "list")
           THEN <<path \o ".url should be array">>
           ELSE LET u(x, i) ==
                      IF ~is_valid_url(x)
                      THEN <<path \o ".url[" \o Idx(i) \o "] invalid URL format">>
                      ELSE <<>>
                IN  ForEach(entity.url.v, u)
      ELSE <<>>)
  \o (IF Has(entity, "contact")
      THEN LET c(x, i) ==
                 validate_organizational_contact(
                   x, path \o ".contact[" \o Idx(i) \o "]")
           IN  ForEach(entity.contact, c)
      ELSE <<>>)

validate_properties_array(properties, path) ==
  LET p(prop, i) ==
        (IF ~Has(prop, "name")
         THEN <<path \o "[" \o Idx(i) \o "] missing 'name' field">> ELSE <<>>)
        \o (IF ~Has(prop, "value")
            THEN <<path \o "[" \o Idx(i) \o "] missing 'value' field">>
            ELSE <<>>)
  IN  ForEach(properties, p)

valid_patch_types == {"unofficial", "monkey", "backport", "cherry-pick"}

validate_pedigree(pedigree, path) ==
  (IF Has(pedigree, "commits")
   THEN LET action(commit, i, field) ==
              IF /\ Has(commit, field)
                 /\ Has(commit[field], "timestamp")
                 /\ ~valid_timestamp(commit[field].timestamp)
              THEN <<path \o ".commits[" \o Idx(i) \o "]." \o field
                       \o " invalid timestamp">>
              ELSE <<>>
            c(commit, i) ==
              (IF ~Has(commit, "uid")
               THEN <<path \o ".commits[" \o Idx(i) \o "] missing 'uid' field">>
               ELSE <<>>)
              \o action(commit, i, "author")
              \o action(commit, i, "committer")
        IN  ForEach(pedigree.commits, c)
   ELSE <<>>)
  \o (IF Has(pedigree, "patches")
      THEN LET p(patch, i) ==
                 IF ~Has(patch, "type")
                 THEN <<path \o ".patches[" \o Idx(i)
                          \o "] missing required 'type' field">>
                 ELSE IF patch.type \notin valid_patch_types
                 THEN <<path \o ".patches[" \o Idx(i) \o "] invalid patch type">>
                 ELSE <<>>
           IN  ForEach(pedigree.patches, p)
      ELSE <<>>)

\* Variant: module asked for in every version from 1.5 on.
validate_evidence_from_1_5(evidence, path, v) ==
  IF Has(evidence, "callstack")
  THEN LET frames == IF Has(evidence.callstack, "frames")
                     THEN evidence.callstack.frames ELSE <<>>
           f(frame, i) ==
             IF str_ge(v, "1.5") /\ ~Has(frame, "module")
             THEN <<path \o ".callstack.frames[" \o Idx(i)
                      \o "] missing required 'module' field in 1.5">>
             ELSE <<>>
       IN  ForEach(frames, f)
  ELSE <<>>

validate_evidence(evidence, path, v) ==
  IF Has(evidence, "callstack")
  THEN LET frames == IF Has(evidence.callstack, "frames")
                     THEN evidence.callstack.frames ELSE <<>>
           f(frame, i) ==
             IF v = "1.5" /\ ~Has(frame, "module")
             THEN <<path \o ".callstack.frames[" \o Idx(i)
                      \o "] missing required 'module' field in 1.5">>
             ELSE <<>>
       IN  ForEach(frames, f)
  ELSE <<>>

valid_flows == {"inbound", "outbound", "bi-directional", "unknown"}

validate_service_structure(service, path) ==
  (IF ~Has(service, "name")
   THEN <<path \o " missing required 'name' field">> ELSE <<>>)
  \o (IF Has(service, "endpoints")
      THEN LET e(x, i) ==
                 IF ~is_valid_url(x)
                 THEN <<path \o ".endpoints[" \o Idx(i) \o "] invalid URL format">>
                 ELSE <<>>
           IN  ForEach(service.endpoints, e)
      ELSE <<>>)
  \o (IF Has(service, "data")
      THEN LET d(x, i) ==
                 (IF ~Has(x, "flow") \/ x.flow \notin valid_flows
                  THEN <<path \o ".data[" \o Idx(i) \o "] invalid or missing flow">>
                  ELSE <<>>)
                 \o (IF ~Has(x, "classification")
                     THEN <<path \o ".data[" \o Idx(i)
                              \o "] missing classification">>
                     ELSE <<>>)
           IN  ForEach(service.data, d)
      ELSE <<>>)
  \o (IF Has(service, "provider")
      THEN validate_organizational_entity(service.provider, path \o ".provider")
      ELSE <<>>)

valid_types ==
  {"application", "framework", "library", "container",
   "operating-system", "device", "firmware", "file"}

valid_scopes == {"required", "optional", "excluded"}

\* Variant: the version field asked for below 1.3 only.
component_version_below_1_3(component, path, v) ==
  IF str_lt(v, "1.3") /\ ~Has(component, "version")
  THEN <<path \o " missing required 'version' field in CycloneDX 1.3">>
  ELSE <<>>

\* Version field (required in 1.3, optional in 1.4+)
component_version(component, path, v) ==
  IF v = "1.3" /\ ~Has(component, "version")
  THEN <<path \o " missing required 'version' field in CycloneDX 1.3">>
  ELSE <<>>

\* Variant: the supplier an object in every version.
component_supplier_object(component, path, v) ==
  IF Has(component, "supplier")
  THEN IF ~isinstance(component.supplier, "dict")
       THEN <<path \o " supplier should be object in " \o v \o "+">>
       ELSE validate_organizational_entity(
              component.supplier.v, path \o ".supplier")
  ELSE <<>>

component_supplier(component, path, v) ==
  IF Has(component, "supplier")
  THEN IF v = "1.3"
       THEN IF ~isinstance(component.supplier, "str")
            THEN <<path \o " supplier should be string in 1.3">>
            ELSE <<>>
       ELSE IF str_ge(v, "1.4")
       THEN IF ~isinstance(component.supplier, "dict")
            THEN <<path \o " supplier should be object in " \o v \o "+">>
            ELSE validate_organizational_entity(
                   component.supplier.v, path \o ".supplier")
       ELSE <<>>
  ELSE <<>>

\* Variant: evidence refused below 1.4 only.
component_evidence_below_1_4(component, path, v) ==
  IF Has(component, "evidence")
  THEN IF str_lt(v, "1.4")
       THEN <<path \o " evidence field not available in " \o v>>
       ELSE validate_evidence(component.evidence, path \o ".evidence", v)
  ELSE <<>>

\* Evidence validation (1.5+)
component_evidence(component, path, v) ==
  IF Has(component, "evidence")
  THEN IF str_lt(v, "1.5")
       THEN <<path \o " evidence field not available in " \o v>>
       ELSE validate_evidence(component.evidence, path \o ".evidence", v)
  ELSE <<>>

RECURSIVE validate_component_structure(_, _, _)
validate_component_structure(component, path, v) ==
  (IF ~Has(component, "type")
   THEN <<path \o " missing required 'type' field">>
   ELSE IF component.type \notin valid_types
   THEN <<path \o " invalid type: " \o component.type>>
   ELSE <<>>)
  \o (IF ~Has(component, "name")
      THEN <<path \o " missing required 'name' field">> ELSE <<>>)
  \o component_version(component, path, v)
  \o component_supplier(component, path, v)
  \o (IF Has(component, "scope") /\ component.scope \notin valid_scopes
      THEN <<path \o " invalid scope: " \o component.scope>> ELSE <<>>)
  \o (IF Has(component, "hashes")
      THEN LET h(x, i) ==
                 validate_hash_object(x, path \o ".hashes[" \o Idx(i) \o "]")
           IN  ForEach(component.hashes, h)
      ELSE <<>>)
  \o (IF Has(component, "licenses")
      THEN LET l(x, i) ==
                 validate_license_choice(
                   x, path \o ".licenses[" \o Idx(i) \o "]")
           IN  ForEach(component.licenses, l)
      ELSE <<>>)
  \o (IF Has(component, "purl") /\ ~startswith(component.purl, "pkg:")
      THEN <<path \o " invalid PURL format">> ELSE <<>>)
  \o (IF Has(component, "cpe") /\ ~startswith(component.cpe, "cpe:")
      THEN <<path \o " invalid CPE format">> ELSE <<>>)
  \o (IF Has(component, "mime-type") /\ ~match_mime(component["mime-type"])
      THEN <<path \o " invalid MIME type format">> ELSE <<>>)
  \o (IF /\ Has(component, "swid")
         /\ (~Has(component.swid, "tagId") \/ ~Has(component.swid, "name"))
      THEN <<path \o ".swid missing required fields (tagId, name)">>
      ELSE <<>>)
  \o (IF Has(component, "externalReferences")
      THEN LET r(x, i) ==
                 validate_external_reference(
                   x, path \o ".externalReferences[" \o Idx(i) \o "]")
           IN  ForEach(component.externalReferences, r)
      ELSE <<>>)
  \o (IF Has(component, "pedigree")
      THEN validate_pedigree(component.pedigree, path \o ".pedigree")
      ELSE <<>>)
  \o component_evidence(component, path, v)
  \o (IF Has(component, "properties")
      THEN validate_properties_array(
             component.properties, path \o ".properties")
      ELSE <<>>)
  \o (IF Has(component, "components")
      THEN LET n(x, i) ==
                 validate_component_structure(
                   x, path \o ".components[" \o Idx(i) \o "]", v)
           IN  ForEach(component.components, n)
      ELSE <<>>)

(***************************************************************************)
(* The sections of validate_complete_cyclonedx_schema(data, version)       *)
(***************************************************************************)
get(d, k) == IF Has(d, k) THEN d[k] ELSE "None"

schema_uri(v) == "http://cyclonedx.org/schema/bom-" \o v \o ".schema.json"

\* Variant: $schema asked for from 1.3 on.
schema_validation_from_1_3(d, v) ==
  IF str_ge(v, "1.3")
  THEN IF ~Has(d, "$schema")
       THEN <<"Missing $schema field (required in " \o v \o "+)">>
       ELSE IF d["$schema"] # schema_uri(v)
       THEN <<"Incorrect $schema for " \o v>>
       ELSE <<>>
  ELSE IF Has(d, "$schema")
       THEN <<"$schema should not be present in " \o v>>
       ELSE <<>>

\* Version-specific schema validation
schema_validation(d, v) ==
  IF str_ge(v, "1.4")
  THEN IF ~Has(d, "$schema")
       THEN <<"Missing $schema field (required in " \o v \o "+)">>
       ELSE IF d["$schema"] # schema_uri(v)
       THEN <<"Incorrect $schema for " \o v>>
       ELSE <<>>
  ELSE IF Has(d, "$schema")
       THEN <<"$schema should not be present in " \o v>>
       ELSE <<>>

\* 1. DOCUMENT LEVEL VALIDATIONS
document_level(d, v) ==
  LET req(field, i) ==
        IF ~Has(d, field) THEN <<"Missing required field: " \o field>>
        ELSE <<>>
  IN  ForEach(<<"bomFormat", "specVersion", "version">>, req)
      \o (IF get(d, "bomFormat") # "CycloneDX"
          THEN <<"Invalid bomFormat: " \o get(d, "bomFormat")>> ELSE <<>>)
      \o schema_validation(d, v)
      \o (IF Has(d, "serialNumber") /\ ~match_uuid(d.serialNumber)
          THEN <<"Invalid UUID format for serialNumber">> ELSE <<>>)

metadata_of(d) == IF Has(d, "metadata") THEN d.metadata ELSE EmptyDict

\* Tools validation
metadata_tools(metadata, v) ==
  IF Has(metadata, "tools")
  THEN LET tools == metadata.tools
       IN  IF str_ge(v, "1.5")
           THEN IF ~isinstance(tools, "dict") \/ ~Has(tools.v, "components")
                THEN <<"Tools should use components structure in " \o v \o "+">>
                ELSE LET t(tool, i) ==
                           validate_component_structure(
                             tool, "tools.components[" \o Idx(i) \o "]", v)
                     IN  ForEach(tools.v.components, t)
           ELSE IF ~isinstance(tools, "list")
                THEN <<"Tools should be array in " \o v>>
                ELSE LET t(tool, i) ==
                           IF \E k \in {"vendor", "name", "version"} :
                                ~Has(tool, k)
                           THEN <<"Tool " \o Idx(i) \o " missing required fields">>
                           ELSE <<>>
                     IN  ForEach(tools.v, t)
  ELSE <<>>

\* Component validation (metadata component)
metadata_component(metadata, v) ==
  IF Has(metadata, "component")
  THEN validate_component_structure(
         metadata.component, "metadata.component", v)
  ELSE <<>>

valid_phases ==
  {"design", "pre-build", "build", "post-build", "operations", "discovery",
   "decommission"}

\* Lifecycles validation (1.5+)
metadata_lifecycles(metadata, v) ==
  IF Has(metadata, "lifecycles")
  THEN IF str_lt(v, "1.5")
       THEN <<"Lifecycles not available in " \o v>>
       ELSE LET l(lifecycle, i) ==
                  IF ~Has(lifecycle, "phase")
                  THEN <<"Lifecycle " \o Idx(i) \o " missing phase">>
                  ELSE IF lifecycle.phase \notin valid_phases
                  THEN <<"Invalid lifecycle phase: " \o lifecycle.phase>>
                  ELSE <<>>
            IN  ForEach(metadata.lifecycles, l)
  ELSE <<>>

\* 2. METADATA VALIDATION
metadata_validation(d, v) ==
  LET metadata == metadata_of(d)
      entity(entity_type) ==
        IF Has(metadata, entity_type)
        THEN validate_organizational_entity(
               metadata[entity_type], "metadata." \o entity_type)
        ELSE <<>>
  IN  (IF Has(metadata, "timestamp") /\ ~valid_timestamp(metadata.timestamp)
       THEN <<"Invalid ISO 8601 timestamp format">> ELSE <<>>)
      \o metadata_tools(metadata, v)
      \o (IF Has(metadata, "authors")
          THEN LET a(x, i) ==
                     validate_organizational_contact(
                       x, "metadata.authors[" \o Idx(i) \o "]")
               IN  ForEach(metadata.authors, a)
          ELSE <<>>)
      \o entity("manufacture")
      \o entity("supplier")
      \o metadata_component(metadata, v)
      \o (IF Has(metadata, "licenses")
          THEN LET l(x, i) ==
                     validate_license_choice(
                       x, "metadata.licenses[" \o Idx(i) \o "]")
               IN  ForEach(metadata.licenses, l)
          ELSE <<>>)
      \o (IF Has(metadata, "properties")
          THEN validate_properties_array(
                 metadata.properties, "metadata.properties")
          ELSE <<>>)
      \o metadata_lifecycles(metadata, v)

\* 3. COMPONENTS VALIDATION: the loop over data["components"], from the
\* i-th component on, with the bom-refs and the issues collected before it.
RECURSIVE components_loop(_, _, _, _, _)
components_loop(components, i, refs, acc, v) ==
  IF i > Len(components) THEN [bom_refs |-> refs, issues |-> acc]
  ELSE LET component == components[i]
           comp_issues ==
             validate_component_structure(
               component, "components[" \o Idx(i) \o "]", v)
       IN  IF ~Has(component, "bom-ref")
           THEN components_loop(components, i + 1, refs, acc \o comp_issues, v)
           ELSE IF component["bom-ref"] \in refs
           THEN components_loop(
                  components, i + 1, refs,
                  acc \o comp_issues
                      \o <<"Duplicate bom-ref: " \o component["bom-ref"]>>, v)
           ELSE components_loop(
                  components, i + 1, refs \cup {component["bom-ref"]},
                  acc \o comp_issues, v)

\* Add metadata component bom-ref
metadata_component_ref(d, refs) ==
  IF /\ Has(d, "metadata")
     /\ Has(d.metadata, "component")
     /\ Has(d.metadata.component, "bom-ref")
  THEN refs \cup {d.metadata.component["bom-ref"]}
  ELSE refs

components_validation(d, v) ==
  LET r == IF Has(d, "components")
           THEN components_loop(d.components, 1, {}, <<>>, v)
           ELSE [bom_refs |-> {}, issues |-> <<>>]
  IN  [bom_refs |-> metadata_component_ref(d, r.bom_refs), issues |-> r.issues]

\* 4. SERVICES VALIDATION
RECURSIVE services_loop(_, _, _, _)
services_loop(services, i, refs, acc) ==
  IF i > Len(services) THEN [bom_refs |-> refs, issues |-> acc]
  ELSE LET service == services[i]
           svc_issues ==
             validate_service_structure(service, "services[" \o Idx(i) \o "]")
       IN  IF ~Has(service, "bom-ref")
           THEN services_loop(services, i + 1, refs, acc \o svc_issues)
           ELSE IF service["bom-ref"] \in refs
           THEN services_loop(
                  services, i + 1, refs,
                  acc \o svc_issues
                      \o <<"Duplicate service bom-ref: " \o service["bom-ref"]>>)
           ELSE services_loop(
                  services, i + 1, refs \cup {service["bom-ref"]},
                  acc \o svc_issues)

services_validation(d, refs) ==
  IF Has(d, "services") THEN services_loop(d.services, 1, refs, <<>>)
  ELSE [bom_refs |-> refs, issues |-> <<>>]

\* Variant: the dependsOn entries counted from one.
depends_on_issues_from_one(dep, i, refs) ==
  IF Has(dep, "dependsOn")
  THEN LET on(dep_ref, j) ==
             IF dep_ref \notin refs
             THEN <<"Dependency " \o Idx(i) \o ".dependsOn[" \o ToString(j)
                      \o "] '" \o dep_ref \o "' not found">>
             ELSE <<>>
       IN  ForEach(dep.dependsOn, on)
  ELSE <<>>

\* The check of the dependsOn entries of the i-th dependency.
depends_on_issues(dep, i, refs) ==
  IF Has(dep, "dependsOn")
  THEN LET on(dep_ref, j) ==
             IF dep_ref \notin refs
             THEN <<"Dependency " \o Idx(i) \o ".dependsOn[" \o Idx(j)
                      \o "] '" \o dep_ref \o "' not found">>
             ELSE <<>>
       IN  ForEach(dep.dependsOn, on)
  ELSE <<>>

\* 5. DEPENDENCIES VALIDATION
dependencies_validation(d, refs) ==
  IF Has(d, "dependencies")
  THEN LET dep_issues(dep, i) ==
             (IF ~Has(dep, "ref")
              THEN <<"Dependency " \o Idx(i) \o " missing required 'ref' field">>
              ELSE IF dep.ref \notin refs
              THEN <<"Dependency " \o Idx(i) \o " ref '" \o dep.ref
                       \o "' not found in bom-refs">>
              ELSE <<>>)
             \o depends_on_issues(dep, i, refs)
       IN  ForEach(d.dependencies, dep_issues)
  ELSE <<>>

valid_aggregates ==
  {"complete", "incomplete", "incomplete_first_party_only",
   "incomplete_third_party_only", "unknown", "not_specified"}

\* 6. COMPOSITIONS VALIDATION
compositions_validation(d) ==
  IF Has(d, "compositions")
  THEN LET c(comp, i) ==
             IF ~Has(comp, "aggregate")
             THEN <<"Composition " \o Idx(i)
                      \o " missing required 'aggregate' field">>
             ELSE IF comp.aggregate \notin valid_aggregates
             THEN <<"Invalid aggregate type: " \o comp.aggregate>>
             ELSE <<>>
       IN  ForEach(d.compositions, c)
  ELSE <<>>

\* 7. VULNERABILITIES VALIDATION (1.4+)
vulnerabilities_validation(d, v) ==
  IF Has(d, "vulnerabilities") /\ str_lt(v, "1.4")
  THEN <<"Vulnerabilities not available in " \o v>>
  ELSE <<>>

\* 8. EXTERNAL REFERENCES VALIDATION
external_references_validation(d) ==
  IF Has(d, "externalReferences")
  THEN LET r(x, i) ==
             validate_external_reference(
               x, "externalReferences[" \o Idx(i) \o "]")
       IN  ForEach(d.externalReferences, r)
  ELSE <<>>

\* The whole function: the issues it returns.
validate_complete_cyclonedx_schema(d, v) ==
  LET c == components_validation(d, v)
      s == services_validation(d, c.bom_refs)
  IN  document_level(d, v)
      \o metadata_validation(d, v)
      \o c.issues
      \o s.issues
      \o dependencies_validation(d, s.bom_refs)
      \o compositions_validation(d)
      \o vulnerabilities_validation(d, v)
      \o external_references_validation(d)

(***************************************************************************)
(* create_perfect_test_data.py                                             *)
(***************************************************************************)
\* The hexdigest hashlib gives for the (algorithm, content) pairs the
\* reference document asks for.
generate_perfect_hash(algorithm, content) ==
  CASE algorithm = "SHA-256" /\ content = "heimdall-tool" ->
         "f5339d41b0dddccff2cdcd4613ba21ca4065b8368293f3d163040f390fe4d044"
    [] algorithm = "SHA-256" /\ content = "test-library" ->
         "8f65f7c4a5eec5941423c0ee81a5c8924f9e775d6a7e6cf56e66994babdaf8d9"
    [] algorithm = "SHA-1" /\ content = "test-library" ->
         "5fa1e5e4cc4dc0a41224aea39ffeeef3150079da"
    [] algorithm = "MD5" /\ content = "test-library" ->
         "5ed5a560ae58a39048d62f4fb916a4ec"
    [] algorithm = "SHA-256" /\ content = "distribution-test-library" ->
         "de65e7060442c7dc22d90f2278c1203b238d4d05821bb91b87b0b7aa627e3d06"
    [] algorithm = "BLAKE2b-256" /\ content = "test-framework" ->
         "619cde1de41f92d7a2e37cc4136ff6c141ea00adca198af79f3a50b302b550a5"
    [] algorithm = "SHA3-512" /\ content = "test-container" ->
         "2cd24907fa0ba16d5f0e7b87ffd44a8abd7809cf4c56d1c224f056fe9deb729c"
         \o "10392e9e1218d9bdd02beeebe8a931233f65d6243751d749229cb7e06604df78"
    [] algorithm \notin Range(valid_algorithms) -> "invalid"

Str(x) == [t |-> "str", v |-> x]

Dict(x) == [t |-> "dict", v |-> x]

List(x) == [t |-> "list", v |-> x]

Integer(x) == [t |-> "int", v |-> x]

Bool(x) == [t |-> "bool", v |-> x]

\* A float, by its repr text.
Float(text) == [t |-> "float", v |-> text]

None == [t |-> "NoneType", v |-> "None"]

perfect_tool_hashes ==
  <<[alg |-> "SHA-256",
     content |-> generate_perfect_hash("SHA-256", "heimdall-tool")]>>

perfect_metadata(v) ==
  [timestamp |-> "2024-01-20T10:00:00Z",
   component |->
     ("bom-ref" :> "main-application")
     @@ [type |-> "application",
         name |-> "test-application",
         version |-> "1.0.0",
         description |-> "Test application for comprehensive validation",
         scope |-> "required"],
   authors |->
     <<[name |-> "John Doe", email |-> "john.doe@example.com",
        phone |-> "555-1234"]>>,
   manufacture |->
     [name |-> "Example Manufacturing Corp",
      url |-> List(<<"https://manufacturing.example.com">>),
      contact |->
        <<[name |-> "Manufacturing Contact",
           email |-> "contact@manufacturing.example.com"]>>],
   supplier |->
     [name |-> "Example Supplier Inc",
      url |-> List(<<"https://supplier.example.com">>)],
   licenses |->
     <<[license |-> [id |-> "Apache-2.0"]],
       [expression |-> "Apache-2.0 AND MIT"]>>,
   properties |-> <<[name |-> "build.system", value |-> "gradle"]>>]
  @@ (IF str_ge(v, "1.5")
      THEN [tools |->
              Dict([components |->
                <<("bom-ref" :> "heimdall-sbom-generator")
                  @@ [type |-> "application",
                      supplier |-> Dict([name |-> "Heimdall Project"]),
                      name |-> "Heimdall SBOM Generator",
                      version |-> "2.0.0",
                      hashes |-> perfect_tool_hashes]>>]),
            lifecycles |->
              <<[phase |-> "design"], [phase |-> "build"],
                [phase |-> "operations"]>>]
      ELSE [tools |->
              List(<<[vendor |-> "Heimdall Project",
                      name |-> "Heimdall SBOM Generator",
                      version |-> "2.0.0",
                      hashes |-> perfect_tool_hashes]>>)])

perfect_evidence(v) ==
  [identity |->
     [field |-> "hash", confidence |-> 1,
      methods |->
        <<[technique |-> "binary-analysis", confidence |-> 1,
           value |-> "File hash verification"]>>],
   occurrences |-> <<[location |-> "/usr/local/lib/test-library-1.2.3.jar"]>>,
   callstack |->
     [frames |->
        <<[function |-> "main", line |-> 1, column |-> 1]
          @@ (IF v = "1.5" THEN [module |-> "test-library"] ELSE EmptyDict)>>]]

perfect_component1(v) ==
  ("bom-ref" :> "library-component-1")
  @@ ("mime-type" :> "application/java-archive")
  @@ [type |-> "library",
      name |-> "test-library",
      group |-> "com.example",
      version |-> "1.2.3",
      description |-> "A comprehensive test library",
      scope |-> "required",
      author |-> "Library Author Team",
      publisher |-> "Example Publishers",
      hashes |->
        <<[alg |-> "SHA-256",
           content |-> generate_perfect_hash("SHA-256", "test-library")],
          [alg |-> "SHA-1",
           content |-> generate_perfect_hash("SHA-1", "test-library")],
          [alg |-> "MD5",
           content |-> generate_perfect_hash("MD5", "test-library")]>>,
      licenses |->
        <<[license |->
             [id |-> "MIT", url |-> "https://opensource.org/licenses/MIT"]]>>,
      copyright |-> "Copyright (c) 2024 Example Corp",
      cpe |-> "cpe:2.3:a:example:test_library:1.2.3:*:*:*:*:*:*:*",
      purl |-> "pkg:maven/com.example/test-library@1.2.3?type=jar",
      swid |->
        [tagId |-> "example.com/test-library-1.2.3", name |-> "Test Library",
         version |-> "1.2.3", tagVersion |-> 1, patch |-> FALSE],
      externalReferences |->
        <<[type |-> "website", url |-> "https://example.com/test-library"],
          [type |-> "vcs", url |-> "https://github.com/example/test-library"],
          [type |-> "distribution",
           url |->
             "https://repo1.maven.org/maven2/com/example/test-library/1.2.3/",
           hashes |->
             <<[alg |-> "SHA-256",
                content |->
                  generate_perfect_hash(
                    "SHA-256", "distribution-test-library")]>>]>>,
      properties |-> <<[name |-> "package.manager", value |-> "maven"]>>,
      pedigree |->
        [ancestors |->
           <<[type |-> "library", name |-> "original-library",
              version |-> "1.0.0"]>>,
         commits |->
           <<[uid |-> "abc123def456",
              url |->
                "https://github.com/example/test-library/commit/abc123def456",
              author |->
                [timestamp |-> "2024-01-10T10:00:00Z",
                 name |-> "Developer Name", email |-> "dev@example.com"],
              message |-> "Initial commit"]>>,
         patches |->
           <<[type |-> "backport",
              diff |-> [url |-> "https://example.com/patch.diff"]]>>],
      supplier |->
        IF v = "1.3" THEN Str("Example Supplier Corp")
        ELSE Dict([name |-> "Example Supplier Corp",
                   url |-> List(<<"https://supplier.example.com">>)])]
  @@ (IF str_ge(v, "1.5") THEN [evidence |-> perfect_evidence(v)]
      ELSE EmptyDict)

perfect_component2(v) ==
  ("bom-ref" :> "framework-component-2")
  @@ [type |-> "framework",
      name |-> "test-framework",
      version |-> "2.1.0",
      scope |-> "optional",
      hashes |->
        <<[alg |-> "BLAKE2b-256",
           content |-> generate_perfect_hash("BLAKE2b-256", "test-framework")]>>,
      purl |-> "pkg:npm/test-framework@2.1.0",
      supplier |->
        IF str_ge(v, "1.4") THEN Dict([name |-> "Framework Supplier"])
        ELSE Str("Framework Supplier")]

perfect_component3(v) ==
  ("bom-ref" :> "container-component-3")
  @@ [type |-> "container",
      name |-> "test-container",
      version |-> "3.0.0",
      scope |-> "excluded",
      hashes |->
        <<[alg |-> "SHA3-512",
           content |-> generate_perfect_hash("SHA3-512", "test-container")]>>,
      purl |-> "pkg:docker/test-container@3.0.0",
      supplier |->
        IF str_ge(v, "1.4") THEN Dict([name |-> "Container Supplier"])
        ELSE Str("Container Supplier")]

perfect_services ==
  <<("bom-ref" :> "api-service-1")
    @@ ("x-trust-boundary" :> FALSE)
    @@ [name |-> "test-api-service",
        version |-> "1.0.0",
        description |-> "REST API service",
        endpoints |-> <<"https://api.example.com/v1">>,
        authenticated |-> TRUE,
        data |-> <<[flow |-> "inbound", classification |-> "PII"]>>,
        provider |->
          [name |-> "API Provider Corp",
           url |-> List(<<"https://provider.example.com">>)],
        group |-> "com.example.services"]>>

perfect_dependencies ==
  <<[ref |-> "main-application",
     dependsOn |-> <<"library-component-1", "framework-component-2">>],
    [ref |-> "library-component-1", dependsOn |-> <<>>],
    [ref |-> "framework-component-2", dependsOn |-> <<"library-component-1">>],
    [ref |-> "container-component-3", dependsOn |-> <<>>]>>

\* create_perfect_test_data(version), uuid being the text of the uuid4 drawn
create_perfect_test_data(v, uuid) ==
  [bomFormat |-> "CycloneDX", specVersion |-> v, version |-> Integer(1)]
  @@ (IF str_ge(v, "1.4") THEN "$schema" :> schema_uri(v) ELSE EmptyDict)
  @@ (IF str_ge(v, "1.3") THEN [serialNumber |-> "urn:uuid:" \o uuid]
      ELSE EmptyDict)
  @@ [metadata |-> perfect_metadata(v),
      components |->
        <<perfect_component1(v), perfect_component2(v), perfect_component3(v)>>,
      services |-> perfect_services,
      dependencies |-> perfect_dependencies,
      compositions |->
        <<[aggregate |-> "complete",
           assemblies |-> <<"main-application", "library-component-1">>,
           dependencies |-> <<"library-component-1">>]>>,
      externalReferences |->
        <<[type |-> "website", url |-> "https://example.com/project"]>>]

(***************************************************************************)
(* validate_cyclonedx_fix.py: class CycloneDX16Validator.  A validator     *)
(* object holds the lists errors and warnings; its methods append to them. *)
(* The operators give the errors, and the warnings, one call appends.      *)
(* In the documents given to this class the values it probes with          *)
(* isinstance (supplier, tools, a tool, a hash, evidence occurrences and   *)
(* identity, the document version) are records                             *)
(* [t |-> type name, v |-> value].                                         *)
(***************************************************************************)
endswith(s, p) ==
  Len(s) >= Len(p) /\ SubSeq(s, Len(s) - Len(p) + 1, Len(s)) = p

\* str.replace(old, "")
RECURSIVE remove(_, _)
remove(s, old) ==
  IF Len(s) < Len(old) THEN s
  ELSE IF startswith(s, old) THEN remove(SubSeq(s, Len(old) + 1, Len(s)), old)
  ELSE Head(s) \o remove(Tail(s), old)

\* str.strip(chars)
RECURSIVE strip(_, _)
strip(s, chars) ==
  IF s = "" THEN ""
  ELSE IF Contains(chars, Head(s)) THEN strip(Tail(s), chars)
  ELSE IF Contains(chars, Char(s, Len(s)))
  THEN strip(SubSeq(s, 1, Len(s) - 1), chars)
  ELSE s

\* Digits of base 16 with single underscores between them, as int accepts.
RECURSIVE int_digits(_, _)
int_digits(s, after_digit) ==
  IF s = "" THEN after_digit
  ELSE IF Head(s) = "_" THEN after_digit /\ int_digits(Tail(s), FALSE)
  ELSE IsHex(Head(s)) /\ int_digits(Tail(s), TRUE)

\* int(s, 16) returns a number (no ValueError) that is not negative.
int_16(s) ==
  LET t == strip(s, " \t\n\f\r")
      u == IF t # "" /\ Head(t) = "+" THEN Tail(t) ELSE t
      prefixed == Len(u) >= 2 /\ Head(u) = "0" /\ Char(u, 2) \in {"x", "X"}
      digits == IF prefixed THEN SubSeq(u, 3, Len(u)) ELSE u
  IN  /\ digits # ""
      /\ IF prefixed /\ Head(digits) = "_"
         THEN int_digits(Tail(digits), FALSE)
         ELSE int_digits(digits, FALSE)

\* uuid.UUID(hex, version=4) returns a UUID.
uuid_UUID(hex) ==
  LET h == remove(strip(remove(remove(hex, "urn:"), "uuid:"), "{}"), "-")
  IN  Len(h) = 32 /\ int_16(h)

validate_uuid(uuid_str) ==
  /\ startswith(uuid_str, "urn:uuid:")
  /\ uuid_UUID(SubSeq(uuid_str, 10, Len(uuid_str)))

validate_tool_components(tool_components) ==
  LET t(tool, i) ==
        IF ~isinstance(tool, "dict")
        THEN <<"Tool component must be an object">>
        ELSE (IF ~Has(tool.v, "name")
              THEN <<"Tool component missing required 'name' field">>
              ELSE <<>>)
             \o (IF ~Has(tool.v, "type")
                 THEN <<"Tool component missing required 'type' field">>
                 ELSE <<>>)
  IN  ForEach(tool_components, t)

validate_hashes(hashes) ==
  LET h(hash_obj, i) ==
        IF ~isinstance(hash_obj, "dict")
        THEN <<"Hash must be an object">>
        ELSE (IF ~Has(hash_obj.v, "alg")
              THEN <<"Hash missing required 'alg' field">> ELSE <<>>)
             \o (IF ~Has(hash_obj.v, "content")
                 THEN <<"Hash missing required 'content' field">> ELSE <<>>)
  IN  ForEach(hashes, h)

CycloneDX16Validator_validate_evidence(evidence) ==
  (IF Has(evidence, "occurrences") /\ ~isinstance(evidence.occurrences, "list")
   THEN <<"Evidence occurrences must be an array">> ELSE <<>>)
  \o (IF Has(evidence, "identity") /\ ~isinstance(evidence.identity, "dict")
      THEN <<"Evidence identity must be an object">> ELSE <<>>)

CycloneDX16Validator_valid_types ==
  {"application", "framework", "library", "container", "platform",
   "operating-system", "device", "device-driver", "firmware", "file",
   "machine-learning-model", "data", "cryptographic-asset"}

validate_component(component) ==
  (IF ~Has(component, "type")
   THEN <<"Component missing required field: type">> ELSE <<>>)
  \o (IF ~Has(component, "name")
      THEN <<"Component missing required field: name">> ELSE <<>>)
  \o (IF /\ Has(component, "type")
         /\ component.type \notin CycloneDX16Validator_valid_types
      THEN <<"Invalid component type: " \o component.type>> ELSE <<>>)
  \o (IF Has(component, "supplier")
      THEN IF isinstance(component.supplier, "str")
           THEN <<"Supplier must be an organizational entity object, not a string">>
           ELSE IF /\ isinstance(component.supplier, "dict")
                   /\ ~Has(component.supplier.v, "name")
           THEN <<"Supplier object missing required 'name' field">>
           ELSE <<>>
      ELSE <<>>)
  \o (IF Has(component, "hashes")
      THEN validate_hashes(component.hashes) ELSE <<>>)
  \o (IF Has(component, "evidence")
      THEN CycloneDX16Validator_validate_evidence(component.evidence)
      ELSE <<>>)

validate_components(components) ==
  LET c(component, i) == validate_component(component)
  IN  ForEach(components, c)

\* The errors validate_metadata appends.
validate_metadata(metadata) ==
  (IF /\ Has(metadata, "tools")
      /\ isinstance(metadata.tools, "dict")
      /\ Has(metadata.tools.v, "components")
   THEN validate_tool_components(metadata.tools.v.components)
   ELSE <<>>)
  \o (IF Has(metadata, "component")
      THEN validate_component(metadata.component) ELSE <<>>)

\* The warnings validate_metadata appends.
validate_metadata_warnings(metadata) ==
  IF Has(metadata, "tools")
  THEN IF isinstance(metadata.tools, "list")
       THEN <<"Tools array format is deprecated, use tools.components in 1.6">>
       ELSE IF /\ isinstance(metadata.tools, "dict")
               /\ ~Has(metadata.tools.v, "components")
       THEN <<"Tools object should have 'components' array">>
       ELSE <<>>
  ELSE <<>>

\* Variant: the specVersion of the document not looked at.
sbom_spec_version_any(sbom) == <<>>

\* Validate specVersion
sbom_spec_version(sbom) ==
  IF get(sbom, "specVersion") # "1.6"
  THEN <<"Invalid specVersion: " \o get(sbom, "specVersion")
         \o ", expected '1.6'">>
  ELSE <<>>

\* str(x), as an f-string formats x, for a version x.
str(x) ==
  CASE x.t = "int" -> ToString(x.v)
    [] x.t = "bool" -> (IF x.v THEN "True" ELSE "False")
    [] OTHER -> x.v

\* The number an int or a bool x is compared as.
int_value(x) == IF x.t = "bool" THEN (IF x.v THEN 1 ELSE 0) ELSE x.v

\* not isinstance(version, int) or version < 1
invalid_version(x) == ~isinstance(x, "int") \/ int_value(x) < 1

\* The errors validate_sbom_structure appends.
validate_sbom_structure(sbom) ==
  (IF ~Has(sbom, "bomFormat")
   THEN <<"Missing required field: bomFormat">> ELSE <<>>)
  \o (IF ~Has(sbom, "specVersion")
      THEN <<"Missing required field: specVersion">> ELSE <<>>)
  \o (IF get(sbom, "bomFormat") # "CycloneDX"
      THEN <<"Invalid bomFormat: " \o get(sbom, "bomFormat")
             \o ", expected 'CycloneDX'">>
      ELSE <<>>)
  \o sbom_spec_version(sbom)
  \o (IF Has(sbom, "serialNumber") /\ ~validate_uuid(sbom.serialNumber)
      THEN <<"Invalid serialNumber format: " \o sbom.serialNumber>>
      ELSE <<>>)
  \o (IF Has(sbom, "version") /\ invalid_version(sbom.version)
      THEN <<"Invalid version: " \o str(sbom.version)
             \o ", must be integer >= 1">>
      ELSE <<>>)
  \o (IF Has(sbom, "metadata") THEN validate_metadata(sbom.metadata) ELSE <<>>)
  \o (IF Has(sbom, "components")
      THEN validate_components(sbom.components) ELSE <<>>)

\* The warnings validate_sbom_structure appends.
validate_sbom_structure_warnings(sbom) ==
  (IF ~Has(sbom, "$schema")
   THEN <<"Missing $schema field (recommended)">>
   ELSE IF ~endswith(sbom["$schema"], "bom-1.6.schema.json")
   THEN <<"Schema reference may be incorrect: " \o sbom["$schema"]>>
   ELSE <<>>)
  \o (IF ~Has(sbom, "serialNumber")
      THEN <<"Missing serialNumber (recommended)">> ELSE <<>>)
  \o (IF Has(sbom, "metadata")
      THEN validate_metadata_warnings(sbom.metadata) ELSE <<>>)

\* The value validate_tool_components returns.
validate_tool_components_is_valid(tool_components) ==
  \A i \in 1..Len(tool_components) :
    LET tool == tool_components[i]
    IN  /\ isinstance(tool, "dict")
        /\ Has(tool.v, "name")
        /\ Has(tool.v, "type")

\* The value validate_hashes returns.
validate_hashes_is_valid(hashes) ==
  \A i \in 1..Len(hashes) :
    LET hash_obj == hashes[i]
    IN  /\ isinstance(hash_obj, "dict")
        /\ Has(hash_obj.v, "alg")
        /\ Has(hash_obj.v, "content")

\* The value validate_evidence returns.
CycloneDX16Validator_validate_evidence_is_valid(evidence) ==
  /\ ~(Has(evidence, "occurrences") /\ ~isinstance(evidence.occurrences, "list"))
  /\ ~(Has(evidence, "identity") /\ ~isinstance(evidence.identity, "dict"))

\* The value validate_component returns.
validate_component_is_valid(component) ==
  /\ Has(component, "type")
  /\ Has(component, "name")
  /\ ~(/\ Has(component, "type")
       /\ component.type \notin CycloneDX16Validator_valid_types)
  /\ Has(component, "supplier")
       => /\ ~isinstance(component.supplier, "str")
          /\ isinstance(component.supplier, "dict")
               => Has(component.supplier.v, "name")
  /\ Has(component, "hashes") => validate_hashes_is_valid(component.hashes)
  /\ Has(component, "evidence")
       => CycloneDX16Validator_validate_evidence_is_valid(component.evidence)

\* The value validate_components returns.
validate_components_is_valid(components) ==
  \A i \in 1..Len(components) : validate_component_is_valid(components[i])

\* Variant: a metadata that gets a warning is not valid.
validate_metadata_is_valid_unwarned(metadata) ==
  /\ Has(metadata, "tools")
       => /\ isinstance(metadata.tools, "dict")
          /\ Has(metadata.tools.v, "components")
          /\ validate_tool_components_is_valid(metadata.tools.v.components)
  /\ Has(metadata, "component")
       => validate_component_is_valid(metadata.component)

\* The value validate_metadata returns.
validate_metadata_is_valid(metadata) ==
  /\ (/\ Has(metadata, "tools")
      /\ isinstance(metadata.tools, "dict")
      /\ Has(metadata.tools.v, "components"))
       => validate_tool_components_is_valid(metadata.tools.v.components)
  /\ Has(metadata, "component")
       => validate_component_is_valid(metadata.component)

\* The value validate_sbom_structure returns.
validate_sbom_structure_is_valid(sbom) ==
  /\ Has(sbom, "bomFormat")
  /\ Has(sbom, "specVersion")
  /\ get(sbom, "bomFormat") = "CycloneDX"
  /\ get(sbom, "specVersion") = "1.6"
  /\ Has(sbom, "serialNumber") => validate_uuid(sbom.serialNumber)
  /\ Has(sbom, "version") => ~invalid_version(sbom.version)
  /\ Has(sbom, "metadata") => validate_metadata_is_valid(sbom.metadata)
  /\ Has(sbom, "components") => validate_components_is_valid(sbom.components)

\* Variant: a validation with warnings does not pass.
print_results_strict(errs, warns) == errs = <<>> /\ warns = <<>>

\* print_results: TRUE when VALIDATION PASSED is printed.
print_results(errs, warns) == errs = <<>>

(***************************************************************************)
(* simple_cyclonedx_validation.py: validate_cyclonedx_structure            *)
(***************************************************************************)
\* Check serialNumber for 1.3+
structure_serial_number(d, v) ==
  IF str_ge(v, "1.3")
  THEN IF ~Has(d, "serialNumber")
       THEN <<"serialNumber missing (should be present for " \o v \o "+)">>
       ELSE IF ~startswith(d.serialNumber, "urn:uuid:")
       THEN <<"serialNumber should be in UUID format">>
       ELSE <<>>
  ELSE <<>>

\* Check component version requirement, supplier format and evidence field
structure_component(component, i, v) ==
  (IF v = "1.3" /\ ~Has(component, "version")
   THEN <<"Component " \o Idx(i)
          \o " missing required version field (required in 1.3)">>
   ELSE <<>>)
  \o (IF Has(component, "supplier")
      THEN IF v = "1.3"
           THEN IF ~isinstance(component.supplier, "str")
                THEN <<"Component " \o Idx(i)
                       \o " supplier should be string for " \o v>>
                ELSE <<>>
           ELSE IF str_ge(v, "1.4")
           THEN IF \/ ~isinstance(component.supplier, "dict")
                   \/ ~Has(component.supplier.v, "name")
                THEN <<"Component " \o Idx(i)
                       \o " supplier should be object for " \o v \o "+">>
                ELSE <<>>
           ELSE <<>>
      ELSE <<>>)
  \o (IF Has(component, "evidence") /\ str_lt(v, "1.5")
      THEN <<"Component " \o Idx(i) \o " evidence field not available in " \o v>>
      ELSE <<>>)

validate_cyclonedx_structure(d, v) ==
  LET required(field) ==
        IF ~Has(d, field)
        THEN <<"Missing required field: " \o field>> ELSE <<>>
      c(component, i) == structure_component(component, i, v)
  IN  required("bomFormat") \o required("specVersion") \o required("version")
      \o (IF get(d, "bomFormat") # "CycloneDX"
          THEN <<"bomFormat should be 'CycloneDX', got: " \o get(d, "bomFormat")>>
          ELSE <<>>)
      \o (IF get(d, "specVersion") # v
          THEN <<"specVersion should be '" \o v \o "', got: "
                 \o get(d, "specVersion")>>
          ELSE <<>>)
      \o (IF str_ge(v, "1.4")
          THEN IF ~Has(d, "$schema")
               THEN <<"$schema field missing (required for " \o v \o "+)">>
               ELSE IF d["$schema"] # schema_uri(v)
               THEN <<"Incorrect $schema for " \o v>>
               ELSE <<>>
          ELSE IF Has(d, "$schema")
               THEN <<"$schema field should not be present for " \o v>>
               ELSE <<>>)
      \o structure_serial_number(d, v)
      \o (IF Has(metadata_of(d), "tools")
          THEN IF str_ge(v, "1.5")
               THEN IF \/ ~isinstance(d.metadata.tools, "dict")
                       \/ ~Has(d.metadata.tools.v, "components")
                    THEN <<"Tools should use components structure for "
                           \o v \o "+">>
                    ELSE <<>>
               ELSE IF ~isinstance(d.metadata.tools, "list")
                    THEN <<"Tools should be array for " \o v>>
                    ELSE <<>>
          ELSE <<>>)
      \o (IF Has(d, "components") THEN ForEach(d.components, c) ELSE <<>>)
      \o (IF Has(metadata_of(d), "lifecycles") /\ str_lt(v, "1.5")
          THEN <<"Lifecycles field not available in " \o v>>
          ELSE <<>>)

(***************************************************************************)
(* validate_cyclonedx_1.3_fix.py                                           *)
(***************************************************************************)
validate_cyclonedx_1_3_structure(d) ==
  LET tool(t, i) ==
        IF Has(t, "vendor") /\ Has(t, "name") /\ Has(t, "version")
        THEN <<>> ELSE <<"Tool missing required fields">>
      component(c, i) ==
        (IF ~Has(c, "version")
         THEN <<"Component " \o Idx(i)
                \o " missing required 'version' field (required in 1.3)">>
         ELSE <<>>)
        \o (IF Has(c, "supplier") /\ ~isinstance(c.supplier, "str")
            THEN <<"Component " \o Idx(i)
                   \o " supplier should be string in CycloneDX 1.3">>
            ELSE <<>>)
      evidence(c, i) ==
        IF Has(c, "evidence")
        THEN <<"Component " \o Idx(i)
               \o " has evidence field (not available in 1.3)">>
        ELSE <<>>
      components == IF Has(d, "components") THEN d.components ELSE <<>>
  IN  (IF Has(d, "$schema")
       THEN <<"$schema field should not be present in CycloneDX 1.3">>
       ELSE <<>>)
      \o (IF Has(d, "metadata") /\ Has(d.metadata, "tools")
          THEN IF isinstance(d.metadata.tools, "list")
               THEN ForEach(d.metadata.tools.v, tool)
               ELSE <<"Tools should be array in CycloneDX 1.3, not object">>
          ELSE <<>>)
      \o ForEach(components, component)
      \o ForEach(components, evidence)
      \o (IF Has(d, "metadata") /\ Has(d.metadata, "lifecycles")
          THEN <<"Lifecycles field not available in CycloneDX 1.3">>
          ELSE <<>>)

(***************************************************************************)
(* validate_cyclonedx_1.4_fix.py                                           *)
(***************************************************************************)
validate_cyclonedx_1_4_structure(d) ==
  LET tool(t, i) ==
        IF Has(t, "vendor") /\ Has(t, "name") /\ Has(t, "version")
        THEN <<>> ELSE <<"Tool missing required fields">>
      supplier(c, i) ==
        IF Has(c, "supplier")
           /\ ~(isinstance(c.supplier, "dict") /\ Has(c.supplier.v, "name"))
        THEN <<"Component " \o Idx(i)
               \o " supplier should be organizational entity object"
               \o " in CycloneDX 1.4">>
        ELSE <<>>
      evidence(c, i) ==
        IF Has(c, "evidence")
        THEN <<"Component " \o Idx(i)
               \o " has evidence field (not available in 1.4)">>
        ELSE <<>>
      components == IF Has(d, "components") THEN d.components ELSE <<>>
  IN  (IF Has(d, "$schema")
       THEN IF d["$schema"] = schema_uri("1.4") THEN <<>>
            ELSE <<"Incorrect $schema: " \o d["$schema"]>>
       ELSE <<"$schema field missing (required in CycloneDX 1.4)">>)
      \o (IF Has(d, "metadata") /\ Has(d.metadata, "tools")
          THEN IF isinstance(d.metadata.tools, "list")
               THEN ForEach(d.metadata.tools.v, tool)
               ELSE <<"Tools should be array in CycloneDX 1.4, not object">>
          ELSE <<>>)
      \o ForEach(components, supplier)
      \o ForEach(components, evidence)
      \o (IF Has(d, "metadata") /\ Has(d.metadata, "lifecycles")
          THEN <<"Lifecycles field not available in CycloneDX 1.4">>
          ELSE <<>>)

(***************************************************************************)
(* comprehensive_cyclonedx_tests.py                                        *)
(***************************************************************************)
validate_uuid_format(uuid_string) == match_uuid(uuid_string)

validate_iso_datetime(datetime_string) == valid_timestamp(datetime_string)

\* d.get(k) for a field that holds a string: the string tagged with its
\* type, or None.
get_tagged(d, k) == IF Has(d, k) THEN Str(d[k]) ELSE None

\* hash_content is a tagged string or, when the hash has no content, None.
\* The value is "True" or "False", or "TypeError" when re.match raises it
\* on None.
validate_hash_content(hash_content, algorithm) ==
  IF algorithm \notin Range(valid_algorithms) THEN "False"
  ELSE IF ~isinstance(hash_content, "str") THEN "TypeError"
  ELSE IF match_hex(hash_content.v, patterns(algorithm)) THEN "True"
  ELSE "False"

\* create_comprehensive_test_data(version): the fields that
\* validate_comprehensive_structure reads, and the names of the entities.
\* The other fields of the source (descriptions, licenses of components,
\* pedigree, evidence, suppliers, properties, tools, lifecycles, service
\* details, compositions, document external references) are never read by
\* it and are left out.
create_comprehensive_test_data(v) ==
  [bomFormat |-> "CycloneDX", specVersion |-> v, version |-> Integer(1)]
  @@ (IF str_ge(v, "1.4") THEN "$schema" :> schema_uri(v) ELSE EmptyDict)
  @@ (IF str_ge(v, "1.3")
      THEN [serialNumber |-> "urn:uuid:12345678-1234-5678-9abc-123456789012"]
      ELSE EmptyDict)
  @@ [metadata |->
        [timestamp |-> "2024-01-20T10:00:00Z",
         component |->
           ("bom-ref" :> "main-application")
           @@ [type |-> "application", name |-> "test-application",
               version |-> "1.0.0", scope |-> "required"],
         authors |->
           <<[name |-> "John Doe", email |-> "john.doe@example.com",
              phone |-> "555-1234"],
             [name |-> "Jane Smith", email |-> "jane.smith@example.com"]>>,
         licenses |->
           <<[license |-> [id |-> "Apache-2.0"]],
             [expression |-> "Apache-2.0 AND MIT"]>>],
      components |->
        <<("bom-ref" :> "library-component-1")
          @@ [type |-> "library", name |-> "test-library",
              version |-> "1.2.3", scope |-> "required",
              hashes |->
                <<[alg |-> "SHA-256",
                   content |->
                     "abc123def456789abcdef123456789abcdef123456789abcdef123456789abcdef12"],
                  [alg |-> "SHA-1",
                   content |-> "abc123def456789abcdef123456789abcdef123456"],
                  [alg |-> "MD5",
                   content |-> "abc123def456789abcdef123456789abc"]>>,
              externalReferences |->
                <<[type |-> "website",
                   url |-> "https://example.com/test-library"],
                  [type |-> "vcs",
                   url |-> "https://github.com/example/test-library"],
                  [type |-> "issue-tracker",
                   url |-> "https://github.com/example/test-library/issues"],
                  [type |-> "documentation",
                   url |-> "https://docs.example.com/test-library"],
                  [type |-> "distribution",
                   url |->
                     "https://repo1.maven.org/maven2/com/example/test-library/1.2.3/",
                   hashes |->
                     <<[alg |-> "SHA-256",
                        content |->
                          "def456abc789def456abc789def456abc789def456abc789def456abc789def456"]>>],
                  [type |-> "license",
                   url |-> "https://example.com/test-library/LICENSE"]>>],
          ("bom-ref" :> "framework-component-2")
          @@ [type |-> "framework", name |-> "test-framework",
              version |-> "2.1.0", scope |-> "optional",
              hashes |->
                <<[alg |-> "BLAKE2b-256",
                   content |->
                     "fedcba9876543210fedcba9876543210fedcba9876543210fedcba9876543210"]>>,
              externalReferences |->
                <<[type |-> "build-system",
                   url |-> "https://ci.example.com/test-framework"]>>],
          ("bom-ref" :> "container-component-3")
          @@ [type |-> "container", name |-> "test-container",
              version |-> "3.0.0", scope |-> "excluded",
              hashes |->
                <<[alg |-> "SHA3-512",
                   content |->
                     "123456789abcdef0123456789abcdef0123456789abcdef0123456789abcdef0123456789abcdef0123456789abcdef0123456789abcdef0123456789abcdef0123456789abcdef0"]>>]>>,
      services |->
        <<("bom-ref" :> "api-service-1")
          @@ [name |-> "test-api-service", version |-> "1.0.0"]>>,
      dependencies |->
        <<[ref |-> "main-application",
           dependsOn |-> <<"library-component-1", "framework-component-2">>],
          [ref |-> "library-component-1", dependsOn |-> <<>>],
          [ref |-> "framework-component-2",
           dependsOn |-> <<"library-component-1">>],
          [ref |-> "container-component-3", dependsOn |-> <<>>]>>]

comprehensive_component_types ==
  {"application", "framework", "library", "container",
   "operating-system", "device", "firmware", "file"}

valid_ext_ref_types ==
  {"vcs", "issue-tracker", "website", "advisories", "bom",
   "mailing-list", "social", "chat", "documentation", "support",
   "distribution", "license", "build-meta", "build-system",
   "release-notes", "other"}

\* The characters of s as repr writes them between the quotes given.
RECURSIVE repr_chars(_, _)
repr_chars(s, quote_char) ==
  IF s = "" THEN ""
  ELSE (CASE Head(s) \in {quote_char, "\\"} -> "\\" \o Head(s)
          [] Head(s) = "\t" -> "\\t"
          [] Head(s) = "\n" -> "\\n"
          [] Head(s) = "\r" -> "\\r"
          [] Head(s) = "\f" -> "\\x0c"
          [] OTHER -> Head(s))
       \o repr_chars(Tail(s), quote_char)

\* repr(s) of a string: in double quotes when s holds a single quote and no
\* double quote, in single quotes otherwise.
repr(s) ==
  IF Contains(s, "'") /\ ~Contains(s, "\"")
  THEN "\"" \o repr_chars(s, "\"") \o "\""
  ELSE "'" \o repr_chars(s, "'") \o "'"

\* repr of a list of strings, without its brackets
RECURSIVE repr_items(_)
repr_items(q) ==
  IF q = <<>> THEN ""
  ELSE repr(Head(q))
       \o (IF Tail(q) = <<>> THEN "" ELSE ", " \o repr_items(Tail(q)))

\* The bom-ref uniqueness pass over the metadata component, the components
\* and the services: the set collected and the list of duplicates.
RECURSIVE collect_refs(_, _)
collect_refs(entities, acc) ==
  IF entities = <<>> THEN acc
  ELSE LET e == Head(entities)
           next ==
             IF ~Has(e, "bom-ref") THEN acc
             ELSE IF e["bom-ref"] \in acc.bom_refs
             THEN [acc EXCEPT !.duplicate_refs = Append(@, e["bom-ref"])]
             ELSE [acc EXCEPT !.bom_refs = @ \cup {e["bom-ref"]}]
       IN  collect_refs(Tail(entities), next)

comprehensive_bom_refs(d) ==
  LET start ==
        [bom_refs |->
           IF Has(d, "metadata") /\ Has(d.metadata, "component")
              /\ Has(d.metadata.component, "bom-ref")
           THEN {d.metadata.component["bom-ref"]} ELSE {},
         duplicate_refs |-> <<>>]
  IN  collect_refs(
        (IF Has(d, "components") THEN d.components ELSE <<>>)
        \o (IF Has(d, "services") THEN d.services ELSE <<>>),
        start)

\* validate_hash_content raises on a hash of a component.
comprehensive_raises(d) ==
  /\ Has(d, "components")
  /\ \E i \in 1..Len(d.components) :
       /\ Has(d.components[i], "hashes")
       /\ \E j \in 1..Len(d.components[i].hashes) :
            validate_hash_content(
              get_tagged(d.components[i].hashes[j], "content"),
              get(d.components[i].hashes[j], "alg")) = "TypeError"

\* The issues validate_comprehensive_structure has appended when the
\* dependencies have been checked, if nothing was raised.
comprehensive_issues_to_dependencies(d) ==
  LET required(f) ==
        IF ~Has(d, f) THEN <<"Missing required field: " \o f>> ELSE <<>>
      components == IF Has(d, "components") THEN d.components ELSE <<>>
      type_of(c, i) ==
        IF get(c, "type") \notin comprehensive_component_types
        THEN <<"Component " \o Idx(i) \o " has invalid type: "
               \o get(c, "type")>>
        ELSE <<>>
      hashes_of(c, i) ==
        LET hash(h, j) ==
              (IF get(h, "alg") \notin Range(valid_algorithms)
               THEN <<"Component " \o Idx(i) \o " hash " \o Idx(j)
                      \o " has invalid algorithm: " \o get(h, "alg")>>
               ELSE <<>>)
              \o (IF validate_hash_content(get_tagged(h, "content"),
                                           get(h, "alg")) # "True"
                  THEN <<"Component " \o Idx(i) \o " hash " \o Idx(j)
                         \o " has invalid content format for "
                         \o get(h, "alg")>>
                  ELSE <<>>)
        IN  IF Has(c, "hashes") THEN ForEach(c.hashes, hash) ELSE <<>>
      references_of(c, i) ==
        LET reference(r, j) ==
              IF get(r, "type") \notin valid_ext_ref_types
              THEN <<"Component " \o Idx(i) \o " external reference "
                     \o Idx(j) \o " has invalid type: " \o get(r, "type")>>
              ELSE <<>>
        IN  IF Has(c, "externalReferences")
            THEN ForEach(c.externalReferences, reference) ELSE <<>>
      scope_of(c, i) ==
        IF Has(c, "scope") /\ c.scope \notin valid_scopes
        THEN <<"Component " \o Idx(i) \o " has invalid scope: " \o c.scope>>
        ELSE <<>>
      refs == comprehensive_bom_refs(d)
      dependency(dep, i) ==
        (IF Has(dep, "ref") /\ dep.ref # "" /\ dep.ref \notin refs.bom_refs
         THEN <<"Dependency " \o Idx(i)
                \o " references non-existent bom-ref: " \o dep.ref>>
         ELSE <<>>)
        \o (LET depends_on(x, j) ==
                  IF x \notin refs.bom_refs
                  THEN <<"Dependency " \o Idx(i) \o " dependsOn[" \o Idx(j)
                         \o "] references non-existent bom-ref: " \o x>>
                  ELSE <<>>
            IN  IF Has(dep, "dependsOn")
                THEN ForEach(dep.dependsOn, depends_on) ELSE <<>>)
  IN  required("bomFormat") \o required("specVersion") \o required("version")
      \o (IF Has(d, "serialNumber") /\ ~validate_uuid_format(d.serialNumber)
          THEN <<"SerialNumber has invalid UUID format">> ELSE <<>>)
      \o (IF Has(d, "metadata") /\ Has(d.metadata, "timestamp")
             /\ ~validate_iso_datetime(d.metadata.timestamp)
          THEN <<"Timestamp has invalid ISO 8601 format">> ELSE <<>>)
      \o ForEach(components, type_of)
      \o ForEach(components, hashes_of)
      \o ForEach(components, references_of)
      \o ForEach(components, scope_of)
      \o (IF refs.duplicate_refs # <<>>
          THEN <<"Duplicate bom-ref values found: ["
                 \o repr_items(refs.duplicate_refs) \o "]">>
          ELSE <<>>)
      \o (IF Has(d, "dependencies")
          THEN ForEach(d.dependencies, dependency) ELSE <<>>)

\* A license expression holds an operator or no blank.
expression_appears_valid(expr) ==
  \/ \E op \in {"AND", "OR", "WITH"} : Contains(expr, op)
  \/ ~Contains(expr, " ")

\* The issues validate_comprehensive_structure returns when it raises
\* nothing.
comprehensive_issues(d, v) ==
  LET components == IF Has(d, "components") THEN d.components ELSE <<>>
      author(a, i) ==
        IF Has(a, "email") /\ ~match_email(a.email)
        THEN <<"Metadata author " \o Idx(i) \o " has invalid email format: "
               \o a.email>>
        ELSE <<>>
      version_of(c, i) ==
        IF ~Has(c, "version")
        THEN <<"Component " \o Idx(i)
               \o " missing required version field in CycloneDX 1.3">>
        ELSE <<>>
      license(l, i) ==
        IF Has(l, "expression") /\ ~expression_appears_valid(l.expression)
        THEN <<"Metadata license " \o Idx(i)
               \o " expression may be invalid: " \o l.expression>>
        ELSE <<>>
  IN  comprehensive_issues_to_dependencies(d)
      \o (IF Has(d, "metadata") /\ Has(d.metadata, "authors")
          THEN ForEach(d.metadata.authors, author) ELSE <<>>)
      \o (IF v = "1.3" THEN ForEach(components, version_of) ELSE <<>>)
      \o (IF Has(d, "metadata") /\ Has(d.metadata, "licenses")
          THEN ForEach(d.metadata.licenses, license) ELSE <<>>)

\* The outcome of the call: raises is TRUE when it ends with the TypeError
\* of validate_hash_content and returns nothing, and issues is the list it
\* returns otherwise.
validate_comprehensive_structure(d, v) ==
  IF comprehensive_raises(d)
  THEN [raises |-> TRUE, issues |-> <<>>]
  ELSE [raises |-> FALSE, issues |-> comprehensive_issues(d, v)]

(***************************************************************************)
(* Calls of print: how many each function makes                            *)
(***************************************************************************)
Count(c) == IF c THEN 1 ELSE 0

RECURSIVE Sum(_)
Sum(ns) == IF ns = <<>> THEN 0 ELSE Head(ns) + Sum(Tail(ns))

SumEach(xs, f(_, _)) == Sum([i \in 1..Len(xs) |-> f(xs[i], i)])

\* validate_complete_cyclonedx_schema, document level: the title, the
\* header, a line for each required field present, for a $schema as the
\* version wants it and for the serialNumber.
document_level_prints(d, v) ==
  LET required(field, i) == Count(Has(d, field))
  IN  2
      + SumEach(<<"bomFormat", "specVersion", "version">>, required)
      + (IF str_ge(v, "1.4")
         THEN Count(Has(d, "$schema") /\ d["$schema"] = schema_uri(v))
         ELSE Count(~Has(d, "$schema")))
      + (IF Has(d, "serialNumber") THEN Count(match_uuid(d.serialNumber))
         ELSE Count(str_ge(v, "1.3")))

\* The header, a line for a valid timestamp and for tools of the right
\* structure.
metadata_validation_prints(d, v) ==
  1
  + Count(/\ Has(metadata_of(d), "timestamp")
          /\ valid_timestamp(metadata_of(d).timestamp))
  + (IF Has(metadata_of(d), "tools")
     THEN IF str_ge(v, "1.5")
          THEN Count(/\ isinstance(metadata_of(d).tools, "dict")
                     /\ Has(metadata_of(d).tools.v, "components"))
          ELSE Count(isinstance(metadata_of(d).tools, "list"))
     ELSE 0)

vulnerabilities_validation_prints(d, v) ==
  Count(Has(d, "vulnerabilities") /\ ~str_lt(v, "1.4"))

\* The whole function: two calls in the components section, one header
\* each for services, dependencies and compositions.
validate_complete_cyclonedx_schema_prints(d, v) ==
  document_level_prints(d, v) + metadata_validation_prints(d, v) + 2 + 1 + 1
  + 1 + vulnerabilities_validation_prints(d, v)

\* run_complete_validation after a call: a headline, and the issues one by
\* one.
run_complete_validation_prints(found) ==
  IF found # <<>> THEN 1 + Len(found) ELSE 1

\* CycloneDX16Validator.print_results
print_results_prints(errs, warns) ==
  (IF errs # <<>> THEN 2 + Len(errs) ELSE 1)
  + (IF warns # <<>> THEN 1 + Len(warns) ELSE 0)

\* validate_cyclonedx_structure of simple_cyclonedx_validation.py
validate_cyclonedx_structure_prints(d, v) ==
  LET required(field, i) == Count(Has(d, field))
      component(c, i) ==
        Count(Has(c, "version"))
        + (IF Has(c, "supplier")
           THEN IF v = "1.3" THEN Count(isinstance(c.supplier, "str"))
                ELSE IF str_ge(v, "1.4")
                THEN Count(/\ isinstance(c.supplier, "dict")
                           /\ Has(c.supplier.v, "name"))
                ELSE 0
           ELSE 0)
        + (IF Has(c, "evidence") THEN Count(~str_lt(v, "1.5"))
           ELSE Count(str_ge(v, "1.5")))
  IN  1
      + SumEach(<<"bomFormat", "specVersion", "version">>, required)
      + Count(get(d, "bomFormat") = "CycloneDX")
      + Count(get(d, "specVersion") = v)
      + (IF str_ge(v, "1.4")
         THEN Count(Has(d, "$schema") /\ d["$schema"] = schema_uri(v))
         ELSE Count(~Has(d, "$schema")))
      + Count(/\ str_ge(v, "1.3")
              /\ Has(d, "serialNumber")
              /\ startswith(d.serialNumber, "urn:uuid:"))
      + (IF Has(metadata_of(d), "tools")
         THEN IF str_ge(v, "1.5")
              THEN Count(/\ isinstance(d.metadata.tools, "dict")
                         /\ Has(d.metadata.tools.v, "components"))
              ELSE Count(isinstance(d.metadata.tools, "list"))
         ELSE 0)
      + (IF Has(d, "components") THEN SumEach(d.components, component) ELSE 0)
      + Count(Has(metadata_of(d), "lifecycles") /\ ~str_lt(v, "1.5"))

\* The tools check of validate_cyclonedx_1_3_structure and of
\* validate_cyclonedx_1_4_structure.
tools_array_prints(d) ==
  LET tool(t, i) ==
        Count(Has(t, "vendor") /\ Has(t, "name") /\ Has(t, "version"))
  IN  IF /\ Has(d, "metadata") /\ Has(d.metadata, "tools")
         /\ isinstance(d.metadata.tools, "list")
      THEN 1 + SumEach(d.metadata.tools.v, tool)
      ELSE 0

validate_cyclonedx_1_3_structure_prints(d) ==
  LET component(c, i) ==
        Count(Has(c, "version"))
        + Count(Has(c, "supplier") /\ isinstance(c.supplier, "str"))
      evidence(c, i) == Count(~Has(c, "evidence"))
      components == IF Has(d, "components") THEN d.components ELSE <<>>
  IN  Count(~Has(d, "$schema"))
      + tools_array_prints(d)
      + SumEach(components, component)
      + SumEach(components, evidence)
      + Count(~(Has(d, "metadata") /\ Has(d.metadata, "lifecycles")))

validate_cyclonedx_1_4_structure_prints(d) ==
  LET component(c, i) ==
        Count(Has(c, "version"))
        + Count(/\ Has(c, "supplier")
                /\ isinstance(c.supplier, "dict")
                /\ Has(c.supplier.v, "name"))
      evidence(c, i) == Count(~Has(c, "evidence"))
      components == IF Has(d, "components") THEN d.components ELSE <<>>
  IN  Count(Has(d, "$schema") /\ d["$schema"] = schema_uri("1.4"))
      + tools_array_prints(d)
      + SumEach(components, component)
      + SumEach(components, evidence)
      + Count(~(Has(d, "metadata") /\ Has(d.metadata, "lifecycles")))

\* The hash objects of the components, in the order
\* validate_comprehensive_structure checks them.
comprehensive_hashes(d) ==
  LET hashes_of(c, i) == IF Has(c, "hashes") THEN c.hashes ELSE <<>>
  IN  IF Has(d, "components") THEN ForEach(d.components, hashes_of) ELSE <<>>

\* The calls made for the hashes hs: for each one line when its algorithm
\* is valid and one when its content is; the check of the content of a hash
\* that raises ends the function.
RECURSIVE hashes_prints(_)
hashes_prints(hs) ==
  IF hs = <<>> THEN 0
  ELSE LET content == validate_hash_content(get_tagged(Head(hs), "content"),
                                            get(Head(hs), "alg"))
       IN  Count(get(Head(hs), "alg") \in Range(valid_algorithms))
           + (IF content = "TypeError" THEN 0
              ELSE Count(content = "True") + hashes_prints(Tail(hs)))

\* validate_comprehensive_structure up to the hashes of the components.
comprehensive_prints_to_hashes(d) ==
  LET required(field, i) == Count(Has(d, field))
      type_of(c, i) == Count(get(c, "type") \in comprehensive_component_types)
  IN  1
      + SumEach(<<"bomFormat", "specVersion", "version">>, required)
      + Count(Has(d, "serialNumber") /\ validate_uuid_format(d.serialNumber))
      + Count(/\ Has(d, "metadata") /\ Has(d.metadata, "timestamp")
              /\ validate_iso_datetime(d.metadata.timestamp))
      + (IF Has(d, "components") THEN SumEach(d.components, type_of) ELSE 0)
      + hashes_prints(comprehensive_hashes(d))

\* validate_comprehensive_structure after the hashes, when it raises
\* nothing.
comprehensive_prints_after_hashes(d, v) ==
  LET components == IF Has(d, "components") THEN d.components ELSE <<>>
      references_of(c, i) ==
        LET reference(r, j) == Count(get(r, "type") \in valid_ext_ref_types)
        IN  IF Has(c, "externalReferences")
            THEN SumEach(c.externalReferences, reference) ELSE 0
      scope_of(c, i) == Count(Has(c, "scope") /\ c.scope \in valid_scopes)
      author(a, i) == Count(Has(a, "email") /\ match_email(a.email))
      version_of(c, i) == Count(Has(c, "version"))
      license(l, i) ==
        Count(Has(l, "expression") /\ expression_appears_valid(l.expression))
  IN  SumEach(components, references_of)
      + SumEach(components, scope_of)
      + Count(comprehensive_bom_refs(d).duplicate_refs = <<>>)
      + Count(/\ Has(d, "dependencies")
              /\ comprehensive_issues_to_dependencies(d) = <<>>)
      + (IF Has(d, "metadata") /\ Has(d.metadata, "authors")
         THEN SumEach(d.metadata.authors, author) ELSE 0)
      + (IF v = "1.3" THEN SumEach(components, version_of) ELSE 0)
      + (IF Has(d, "metadata") /\ Has(d.metadata, "licenses")
         THEN SumEach(d.metadata.licenses, license) ELSE 0)

validate_comprehensive_structure_prints(d, v) ==
  comprehensive_prints_to_hashes(d)
  + (IF comprehensive_raises(d) THEN 0
     ELSE comprehensive_prints_after_hashes(d, v))

\* One turn of the loop of main() of comprehensive_cyclonedx_tests.py around
\* the call: three lines of title and one for the serialization before it,
\* the outcome and one line for the file saved after it.
comprehensive_turn_prints(found) ==
  3 + 1 + (IF found # <<>> THEN 1 + Len(found) ELSE 1) + 1

(***************************************************************************)
(* Input documents                                                         *)
(***************************************************************************)
SupportedVersions == {"1.3", "1.4", "1.5", "1.6"}

\* Version strings no policy exists for.
OtherVersions == {"1.2", "1.7", "2.0", "1.10"}

\* Nesting depth of components below the top-level list.
MaxDepth == 1

\* Number of entries of a licenses list.
MaxLicenses == 2

\* By how many characters a hash content misses the expected length.
MaxSlack == 1

\* A document with the document-level fields the checks of
\* validate_complete_cyclonedx_schema(d, v) ask for and nothing else.
base_document(v) ==
  [bomFormat |-> "CycloneDX", specVersion |-> v, version |-> Integer(1)]
  @@ (IF str_ge(v, "1.4") THEN "$schema" :> schema_uri(v) ELSE EmptyDict)

\* Section 8 of spec.md, first concrete scenario.
scenario_missing_version ==
  [bomFormat |-> "CycloneDX", specVersion |-> "1.3", version |-> Integer(1),
   metadata |-> [component |-> [type |-> "application", name |-> "app"]],
   components |->
     <<("bom-ref" :> "lib1") @@ [type |-> "library", name |-> "L"]>>]

\* Section 8 of spec.md, second concrete scenario, for a $schema value.
scenario_schema_present(schema) ==
  ("$schema" :> schema)
  @@ [bomFormat |-> "CycloneDX", specVersion |-> "1.3", version |-> Integer(1),
      metadata |-> [component |-> [type |-> "application", name |-> "app"]],
      components |->
        <<("bom-ref" :> "lib1")
          @@ [type |-> "library", name |-> "L", version |-> "1.0.0"]>>]

SchemaValues == {schema_uri(v) : v \in SupportedVersions} \cup {"x"}

library(ref) ==
  (IF ref = "" THEN EmptyDict ELSE "bom-ref" :> ref)
  @@ [type |-> "library", name |-> "L", version |-> "1.0.0"]

\* Section 8 of spec.md, third concrete scenario: "main" is declared by the
\* place named by main_at, "lib1" by the other of the two.
scenario_missing_ref(main_at) ==
  base_document("1.6")
  @@ [metadata |->
        [component |->
           ("bom-ref" :> (IF main_at = "metadata" THEN "main" ELSE "lib1"))
           @@ [type |-> "application", name |-> "app"]],
      components |->
        <<library(IF main_at = "metadata" THEN "lib1" ELSE "main")>>,
      dependencies |-> <<[ref |-> "main", dependsOn |-> <<"missing-ref">>]>>]

\* Components built from the leaves, nested up to depth levels deep, every
\* nested list holding one component.
RECURSIVE Trees(_, _)
Trees(leaves, depth) ==
  IF depth = 0 THEN leaves
  ELSE leaves \cup
       {b @@ [components |-> <<k>>] : b \in leaves, k \in Trees(leaves, depth - 1)}

ComponentLists(leaves) ==
  {<<>>}
  \cup {<<t>> : t \in Trees(leaves, MaxDepth)}
  \cup {<<t, l>> : t \in Trees(leaves, MaxDepth), l \in leaves}
  \cup {<<l, t>> : l \in leaves,
                   t \in Trees(leaves, MaxDepth) \ Trees(leaves, MaxDepth - 1)}

Refs == {"a", "b"}

\* Documents of version 1.6 that differ in where bom-refs are declared and
\* in what the one dependency refers to.
GraphDocuments ==
  {base_document("1.6")
   @@ [metadata |->
         [component |->
            (IF m = "" THEN EmptyDict ELSE "bom-ref" :> m)
            @@ [type |-> "application", name |-> "app"]],
       components |-> cs,
       dependencies |-> <<[ref |-> r, dependsOn |-> <<x>>]>>]
   @@ (IF s = "" THEN EmptyDict
       ELSE [services |-> <<("bom-ref" :> s) @@ [name |-> "svc"]>>]) :
     m \in Refs \cup {""},
     cs \in ComponentLists({library(ref) : ref \in Refs \cup {""}}),
     r \in Refs, x \in Refs, s \in {"", "a"}}

no_module_evidence == [callstack |-> [frames |-> <<[function |-> "main"]>>]]

EvidenceLeaves ==
  {library(""), library("") @@ [evidence |-> no_module_evidence]}

\* Documents, valid for v but for evidence, that differ in which components
\* carry an evidence field.
EvidenceDocuments(v) ==
  {base_document(v)
   @@ [metadata |->
         [component |->
            [type |-> "application", name |-> "app", version |-> "1.0.0"]
            @@ m],
       components |-> cs] :
     m \in {EmptyDict, [evidence |-> no_module_evidence]},
     cs \in ComponentLists(EvidenceLeaves)}

LicenseChoices ==
  {EmptyDict,
   [license |-> [id |-> "MIT"]],
   [license |-> [name |-> "Custom"]],
   [license |-> EmptyDict],
   [expression |-> "MIT OR Apache-2.0"],
   [expression |-> "MIT Apache-2.0"],
   [license |-> [id |-> "MIT"], expression |-> "MIT"],
   [license |-> EmptyDict, expression |-> "MIT Apache-2.0"]}

RECURSIVE SeqsOfLen(_, _)
SeqsOfLen(S, n) ==
  IF n = 0 THEN {<<>>}
  ELSE {Append(q, x) : q \in SeqsOfLen(S, n - 1), x \in S}

SeqsUpTo(S, n) == UNION {SeqsOfLen(S, k) : k \in 0..n}

\* Documents of version 1.4 that differ in the licenses of the metadata and
\* of the one component.
LicenseDocuments ==
  {base_document("1.4")
   @@ [metadata |-> [licenses |-> ls],
       components |-> <<library("a") @@ [licenses |-> <<c>>]>>] :
     ls \in SeqsUpTo(LicenseChoices, MaxLicenses), c \in LicenseChoices}

RECURSIVE Repeat(_, _)
Repeat(c, n) ==
  IF n <= 0 THEN ""
  ELSE IF n = 1 THEN c
  ELSE LET half == Repeat(c, n \div 2)
       IN  half \o half \o (IF n % 2 = 1 THEN c ELSE "")

HashContents(n) ==
  {Repeat("a", k) : k \in (n - MaxSlack)..(n + MaxSlack)}
  \cup {Repeat("A", n), Repeat("0", n), "g" \o Repeat("a", n - 1),
        Repeat("a", n) \o "\n", ""}

HashObjects ==
  {[alg |-> valid_algorithms[k], content |-> c] :
     k \in 1..Len(valid_algorithms),
     c \in UNION {HashContents(patterns(valid_algorithms[j])) :
                    j \in 1..Len(valid_algorithms)}}
  \cup {[alg |-> "CRC32", content |-> Repeat("a", 8)],
        [alg |-> "MD5"], [content |-> Repeat("a", 32)], EmptyDict}

good_hash == [alg |-> "SHA-1", content |-> Repeat("0", 40)]

\* A document of version 1.5 with the hash object h at the place named.
hash_document(h, place) ==
  base_document("1.5")
  @@ CASE place = "first" ->
            [components |-> <<library("a") @@ [hashes |-> <<h>>]>>]
       [] place = "second" ->
            [components |->
               <<library("a"), library("b") @@ [hashes |-> <<good_hash, h>>]>>]
       [] place = "metadata" ->
            [metadata |->
               [component |->
                  [type |-> "application", name |-> "app", hashes |-> <<h>>]]]
       [] place = "reference" ->
            [components |->
               <<library("a")
                 @@ [externalReferences |->
                       <<[type |-> "website", url |-> "https://example.com",
                          hashes |-> <<h>>]>>]>>]

HashPlaces == {"first", "second", "metadata", "reference"}

UuidTexts ==
  {Repeat(h, 8) \o "-" \o Repeat(h, 4) \o "-4" \o Repeat(h, 3) \o "-" \o y
     \o Repeat(h, 3) \o "-" \o Repeat(h, 12) :
     h \in {"0", "f"}, y \in {"8", "b"}}

\* The document d without the field k.
without(d, k) == [f \in DOMAIN d \ {k} |-> d[f]]

\* The revisions of a document explored: integers, and values of the other
\* types a JSON text gives.
Revisions ==
  {Integer(1), Integer(0), Integer(-1), Bool(TRUE), Bool(FALSE), Str("1"),
   Float("1.0"), None}

\* Documents for CycloneDX16Validator that differ in $schema, serialNumber,
\* specVersion, version, metadata.tools and the one component.
SbomDocuments ==
  {[bomFormat |-> "CycloneDX", specVersion |-> spec, version |-> ver,
    metadata |->
      tools @@ [component |->
                  [type |-> "application", name |-> "app", version |-> "1"]],
    components |-> <<c>>]
   @@ schema @@ serial :
     spec \in {"1.6", "1.5"},
     ver \in Revisions,
     schema \in {EmptyDict, "$schema" :> schema_uri("1.6"), "$schema" :> "x"},
     serial \in {EmptyDict,
                 [serialNumber |-> "urn:uuid:" \o CHOOSE u \in UuidTexts : TRUE],
                 [serialNumber |-> "urn:uuid:1234"]},
     tools \in {EmptyDict,
                [tools |-> List(<<[vendor |-> "V", name |-> "T", version |-> "1"]>>)],
                [tools |-> Dict(EmptyDict)],
                [tools |->
                   Dict([components |->
                           <<Dict([type |-> "application", name |-> "T"])>>])]},
     c \in {[type |-> "library", name |-> "L",
             supplier |-> Dict([name |-> "S"]),
             hashes |-> <<Dict([alg |-> "MD5", content |-> "x"])>>],
            [type |-> "library"],
            [type |-> "library", name |-> "L", supplier |-> Str("S")],
            [type |-> "library", name |-> "L", supplier |-> Dict(EmptyDict)],
            [type |-> "library", name |-> "L", supplier |-> List(<<"S">>)]}}

\* Documents of version 1.3 with structural errors (a $schema, components
\* without name or version, a hash of an unknown algorithm, a service without
\* name) that differ in the bom-refs declared and in the one dependency.
BrokenGraphDocuments ==
  {[bomFormat |-> "CycloneDX", specVersion |-> "1.3", version |-> Integer(1),
    components |-> <<c1, c2>>,
    services |-> <<"bom-ref" :> s>>,
    dependencies |-> <<[ref |-> r, dependsOn |-> <<x>>]>>]
   @@ schema :
     c1 \in {without(library("a"), "name"), library("a")},
     c2 \in {without(library("a"), "version"),
             library("b") @@ [hashes |-> <<[alg |-> "CRC32", content |-> "0"]>>]},
     s \in Refs \cup {"c"},
     r \in Refs \cup {"zz"}, x \in Refs \cup {"zz"},
     schema \in {EmptyDict, "$schema" :> schema_uri("1.3")}}

\* External references that differ in type, url and nested hashes.
ExternalReferences ==
  {t @@ u @@ h :
     t \in {EmptyDict, [type |-> "website"], [type |-> "homepage"]},
     u \in {EmptyDict, [url |-> "https://example.com"], [url |-> "example"]},
     h \in {EmptyDict, [hashes |-> <<good_hash>>],
            [hashes |-> <<[alg |-> "MD5", content |-> "zz"]>>]}}

\* Documents of version 1.5 with the external reference r in a component
\* or in the document.
reference_document(r, place) ==
  base_document("1.5")
  @@ (IF place = "component"
      THEN [components |-> <<library("a") @@ [externalReferences |-> <<r>>]>>]
      ELSE [components |-> <<library("a")>>, externalReferences |-> <<r>>])

\* Documents of version 1.6 with one declared bom-ref and one composition
\* whose assemblies and dependencies name x and y.
CompositionDocuments ==
  {base_document("1.6")
   @@ [components |-> <<library("a")>>,
       compositions |->
         <<g @@ [assemblies |-> <<"a", x>>, dependencies |-> <<y>>]>>] :
     x \in Refs \cup {"zz"}, y \in Refs \cup {"zz"},
     g \in {EmptyDict, [aggregate |-> "complete"], [aggregate |-> "all"]}}

\* Documents of version 1.6 with one service whose data list has two entries
\* that differ in flow and classification.
ServiceDataEntries ==
  {f @@ c :
     f \in {EmptyDict, [flow |-> "inbound"], [flow |-> "sideways"]},
     c \in {EmptyDict, [classification |-> ""], [classification |-> "PII"]}}

ServiceDataDocuments ==
  {base_document("1.6")
   @@ [components |-> <<library("a")>>,
       services |-> <<[name |-> "svc", data |-> <<x, y>>]>>] :
     x \in ServiceDataEntries, y \in ServiceDataEntries}

\* The values of metadata.tools: flat lists and components wrappers, with an
\* entry that is complete or lacks fields.
ToolsValues ==
  {List(<<[vendor |-> "V", name |-> "T", version |-> "1"]>>),
   List(<<[vendor |-> "V", name |-> "T", version |-> "1"], [name |-> "T"]>>),
   Dict(EmptyDict),
   Dict([components |->
           <<[type |-> "application", name |-> "T", version |-> "1"]>>]),
   Dict([components |->
           <<[type |-> "application", name |-> "T", version |-> "1"],
             [type |-> "tool", version |-> "1"]>>])}

\* Documents that declare version v and differ in metadata.tools.
ToolsDocuments(v) ==
  {base_document(v)
   @@ [metadata |-> [tools |-> t], components |-> <<library("a")>>] :
     t \in ToolsValues}

\* The values of a component's supplier: a string, an object with and
\* without name, and a list.
SupplierValues ==
  {Str("S"), Dict([name |-> "S"]), Dict(EmptyDict), List(<<"S">>)}

\* Documents that declare version v, with two components that differ in
\* supplier.
SupplierDocuments(v) ==
  {base_document(v)
   @@ [components |->
         <<library("a") @@ [supplier |-> x], library("b") @@ y>>] :
     x \in SupplierValues,
     y \in {EmptyDict} \cup {[supplier |-> z] : z \in SupplierValues}}

\* Components that each break at most one rule of the component procedure.
NestedLeaves ==
  LET good == [type |-> "library", name |-> "N", version |-> "1.0.0"]
  IN  {good,
       [type |-> "gadget", name |-> "N", version |-> "1.0.0"],
       [name |-> "N", version |-> "1.0.0"],
       [type |-> "library", version |-> "1.0.0"],
       [type |-> "library", name |-> "N"],
       good @@ [supplier |-> Str("S")],
       good @@ [supplier |-> Dict([name |-> "S"])],
       good @@ [scope |-> "sometimes"],
       good @@ [hashes |-> <<[alg |-> "MD5", content |-> "zz"]>>],
       good @@ [licenses |-> <<[license |-> [id |-> "MIT"],
                                expression |-> "MIT"]>>],
       good @@ [evidence |-> no_module_evidence]}

\* Documents that declare version v, with a component y nested in the first
\* top-level component, after a sibling, and a component z nested in y.
NestedDocuments(v) ==
  {base_document(v)
   @@ [components |->
         <<library("a")
           @@ [components |-> <<library("b"), y @@ [components |-> <<z>>]>>]>>] :
     y \in NestedLeaves, z \in NestedLeaves}

\* Documents that declare version v, with the $schema of v when v has one,
\* and differ in their revision.
RevisionDocuments(v) ==
  {[version |-> r]
   @@ (IF v = "1.3" THEN EmptyDict ELSE "$schema" :> schema_uri(v))
   @@ base_document(v) : r \in Revisions}

\* Documents that declare version v and differ in the $schema they carry.
SchemaDocuments(v) ==
  {without(base_document(v), "$schema") @@ x
   @@ [serialNumber |-> "urn:uuid:00000000-0000-4000-8000-000000000000",
       components |-> <<library("a")>>] :
     x \in {EmptyDict} \cup {"$schema" :> u : u \in SchemaValues}}

\* The calls validate_complete_cyclonedx_schema(d, v) explored.
Input(d, v) ==
  \/ d = scenario_missing_version /\ v = "1.3"
  \/ /\ v \in SupportedVersions
     /\ \E u \in UuidTexts :
          d = without(create_perfect_test_data(v, u), "serialNumber")
  \/ \E x \in SchemaValues : d = scenario_schema_present(x) /\ v = "1.3"
  \/ \E at \in {"metadata", "components"} :
       d = scenario_missing_ref(at) /\ v = "1.6"
  \/ d \in GraphDocuments /\ v = "1.6"
  \/ d \in BrokenGraphDocuments /\ v = "1.3"
  \/ \E r \in ExternalReferences, p \in {"component", "document"} :
       d = reference_document(r, p) /\ v = "1.5"
  \/ v \in SupportedVersions /\ d \in EvidenceDocuments(v)
  \/ v \in SupportedVersions /\ d \in SchemaDocuments(v)
  \/ d \in CompositionDocuments /\ v = "1.6"
  \/ d \in ServiceDataDocuments /\ v = "1.6"
  \/ v \in SupportedVersions /\ d \in ToolsDocuments(v)
  \/ v \in SupportedVersions /\ d \in SupplierDocuments(v)
  \/ v \in SupportedVersions /\ d \in NestedDocuments(v)
  \/ v \in SupportedVersions /\ d \in RevisionDocuments(v)
  \/ /\ v \in SupportedVersions
     /\ \E s \in SupportedVersions \ {v} : d \in SchemaDocuments(s)
  \/ v \in OtherVersions /\ d \in EvidenceDocuments(v)
  \/ d \in LicenseDocuments /\ v = "1.4"
  \/ \E h \in HashObjects, p \in HashPlaces :
       d = hash_document(h, p) /\ v = "1.5"
  \/ /\ v \in SupportedVersions
     /\ \E u \in UuidTexts : d = create_perfect_test_data(v, u)

\* The calls validate_cyclonedx_structure(d, v) explored.
StructureInput(d, v) ==
  \/ /\ v \in SupportedVersions
     /\ \E u \in UuidTexts :
          \/ d = create_perfect_test_data(v, u)
          \/ d = without(create_perfect_test_data(v, u), "serialNumber")
  \/ v \in SupportedVersions /\ d = base_document(v)
  \/ v \in SupportedVersions /\ d \in EvidenceDocuments(v)
  \/ /\ v \in SupportedVersions
     /\ \E s \in SupportedVersions : d \in SchemaDocuments(s)
  \/ v \in SupportedVersions /\ d \in ToolsDocuments(v)
  \/ v \in SupportedVersions /\ d \in SupplierDocuments(v)

\* The calls validate_cyclonedx_1_3_structure(d) explored.
Structure13Input(d) ==
  \/ StructureInput(d, "1.3")
  \/ d = scenario_missing_version
  \/ \E x \in SchemaValues : d = scenario_schema_present(x)

\* Hash objects with and without content and algorithm.
ComprehensiveHashes ==
  {[alg |-> "MD5", content |-> Repeat("a", 32)], [alg |-> "MD5"],
   [alg |-> "MD5", content |-> "None"], [content |-> Repeat("a", 32)],
   [alg |-> "CRC32"], EmptyDict}

\* bom-refs with quotes and backslashes.
QuotedRefs == {"a", "it's", "say \"a\"", "it's \"a\"", "a\\b", "a\tb"}

\* Documents of version 1.6 whose two components and one service declare
\* bom-refs that may be the same.
DuplicateDocuments ==
  {base_document("1.6")
   @@ [components |-> <<library(r), library(x)>>,
       services |-> <<("bom-ref" :> y) @@ [name |-> "svc"]>>] :
     r \in QuotedRefs, x \in QuotedRefs, y \in {"a", "it's"}}

\* The calls validate_comprehensive_structure(d, v) explored.
ComprehensiveInput(d, v) ==
  \/ StructureInput(d, v)
  \/ d \in BrokenGraphDocuments /\ v = "1.3"
  \/ d \in DuplicateDocuments /\ v = "1.6"
  \/ \E h \in ComprehensiveHashes, place \in {"first", "second"} :
       d = hash_document(h, place) /\ v = "1.5"

(***************************************************************************)
(* One call of validate_complete_cyclonedx_schema, section by section      *)
(***************************************************************************)
\* The state of a second call, made by another worker: its arguments, its
\* position, its local variables and, for CycloneDX16Validator, the
\* attributes of the validator object the worker constructed.
Worker(d, v, at) ==
  [data |-> d, version |-> v, pc |-> at, issues |-> <<>>, bom_refs |-> {},
   errors |-> <<>>, warnings |-> <<>>, report |-> ""]

\* No second call.
NoWorker == Worker(EmptyDict, "", "none")

(***************************************************************************)
(* JSON texts.  A document read from a text has its components as a tagged *)
(* value whose entries are tagged values, as                               *)
(* validate_cyclonedx_json_schema probes both with isinstance.             *)
(***************************************************************************)
quote(x) == "\"" \o x \o "\""

RECURSIVE join(_, _)
join(q, sep) ==
  IF q = <<>> THEN ""
  ELSE Head(q) \o (IF Tail(q) = <<>> THEN "" ELSE sep \o join(Tail(q), sep))

\* The members of the object d for the keys it has, in the order of keys.
json_members(d, keys, text(_, _)) ==
  LET present == SelectSeq(keys, LAMBDA k : Has(d, k))
  IN  "{" \o join([i \in 1..Len(present) |->
                     quote(present[i]) \o ": " \o text(present[i], d[present[i]])],
                  ", ") \o "}"

\* The text of an int, a bool, a float, None or a string.
json_value(x) ==
  CASE x.t = "int" -> ToString(x.v)
    [] x.t = "bool" -> (IF x.v THEN "true" ELSE "false")
    [] x.t = "float" -> x.v
    [] x.t = "NoneType" -> "null"
    [] x.t = "str" -> quote(x.v)

json_component(c) ==
  LET text(k, x) == quote(x)
  IN  IF isinstance(c, "dict")
      THEN json_members(c.v, <<"type", "name">>, text)
      ELSE quote(c.v)

json_metadata(m) ==
  LET text(k, x) == IF k = "tools" THEN "[]" ELSE quote(x)
  IN  json_members(m, <<"timestamp", "tools">>, text)

json_components(x) ==
  IF isinstance(x, "list")
  THEN "[" \o join([i \in 1..Len(x.v) |-> json_component(x.v[i])], ", ") \o "]"
  ELSE quote(x.v)

\* json.dumps(d) for a document of the fields below.
json_dumps(d) ==
  LET text(k, x) ==
        CASE k = "version" -> json_value(x)
          [] k = "metadata" -> json_metadata(x)
          [] k = "components" -> json_components(x)
          [] OTHER -> quote(x)
  IN  json_members(d, <<"bomFormat", "specVersion", "version", "metadata",
                        "components">>, text)

\* The documents whose texts are read.
JsonDocuments ==
  {bom @@ spec @@ ver @@ metadata @@ components :
     bom \in {EmptyDict, [bomFormat |-> "CycloneDX"], [bomFormat |-> "SPDX"]},
     spec \in {EmptyDict} \cup {[specVersion |-> v] :
                                  v \in {"1.3", "1.4", "1.5", "1.6", "2.0"}},
     ver \in {EmptyDict, [version |-> Integer(1)], [version |-> Str("1")],
              [version |-> Float("1.0")], [version |-> Bool(TRUE)]},
     metadata \in {EmptyDict, [metadata |-> EmptyDict],
                   [metadata |-> [timestamp |-> "2024-01-01T00:00:00Z"]],
                   [metadata |-> [timestamp |-> "2024-01-01T00:00:00Z",
                                  tools |-> <<>>]]},
     components \in
       {EmptyDict, [components |-> Str("x")], [components |-> List(<<>>)],
        [components |-> List(<<Dict([type |-> "library", name |-> "a"])>>)],
        [components |->
           List(<<Str("c"), Dict([name |-> "n"]), Dict([type |-> "t"])>>)]}}

\* Texts that are not JSON.
BrokenTexts == {"", "{"}

\* The message of the json.JSONDecodeError that json.loads raises on text.
JSONDecodeError(text) ==
  CASE text = "" -> "Expecting value: line 1 column 1 (char 0)"
    [] text = "{" -> "Expecting property name enclosed in double quotes: "
                     \o "line 1 column 2 (char 1)"

\* The texts of the documents, each with the document it is the text of.
JsonTexts == {<<json_dumps(d), d>> : d \in JsonDocuments}

\* json.loads(text) for a text that is JSON.
json_loads(text) == (CHOOSE p \in JsonTexts : p[1] = text)[2]

(***************************************************************************)
(* scripts/validate_sboms_online.py: validate_cyclonedx_json_schema        *)
(***************************************************************************)
online_valid_versions == <<"1.0", "1.1", "1.2", "1.3", "1.4", "1.5">>

online_component(component, i) ==
  IF ~isinstance(component, "dict")
  THEN <<"Component " \o Idx(i) \o " must be an object">>
  ELSE IF ~Has(component.v, "type")
  THEN <<"Component " \o Idx(i) \o " missing required 'type' field">>
  ELSE IF ~Has(component.v, "name")
  THEN <<"Component " \o Idx(i) \o " missing required 'name' field">>
  ELSE <<>>

\* The errors validate_cyclonedx_json_schema(sbom_content) returns; its
\* boolean is len(errors) == 0.
validate_cyclonedx_json_schema(text) ==
  IF text \in BrokenTexts
  THEN <<"Invalid JSON: " \o JSONDecodeError(text)>>
  ELSE
    LET d == json_loads(text)
        required_fields ==
          <<"bomFormat", "specVersion", "version", "metadata", "components">>
        missing(field, i) ==
          IF ~Has(d, field)
          THEN <<"Missing required field: " \o field>> ELSE <<>>
    IN  ForEach(required_fields, missing)
        \o (IF Has(d, "bomFormat") /\ d.bomFormat # "CycloneDX"
            THEN <<"bomFormat must be 'CycloneDX'">> ELSE <<>>)
        \o (IF /\ Has(d, "specVersion")
               /\ d.specVersion \notin Range(online_valid_versions)
            THEN <<"Invalid specVersion: " \o d.specVersion
                   \o ". Must be one of ["
                   \o repr_items(online_valid_versions) \o "]">>
            ELSE <<>>)
        \o (IF Has(d, "metadata")
            THEN (IF ~Has(d.metadata, "timestamp")
                  THEN <<"Missing timestamp in metadata">> ELSE <<>>)
                 \o (IF ~Has(d.metadata, "tools")
                     THEN <<"Missing tools in metadata">> ELSE <<>>)
            ELSE <<>>)
        \o (IF Has(d, "components")
            THEN IF ~isinstance(d.components, "list")
                 THEN <<"components must be an array">>
                 ELSE ForEach(d.components.v, online_component)
            ELSE <<>>)

\* The texts given to validate_cyclonedx_json_schema.
OnlineContents == {p[1] : p \in JsonTexts} \cup BrokenTexts

\* The calls made on one CycloneDX16Validator at most.
MaxCalls == 3

\* The documents given to validate_sbom_structure on one validator: one with
\* warnings only, two with an error, of which one for a version that is no
\* integer, and one with neither.
InstanceDocuments ==
  {[bomFormat |-> "CycloneDX", specVersion |-> "1.6", version |-> Integer(1)],
   [bomFormat |-> "CycloneDX", specVersion |-> "1.6", version |-> Str("1"),
    serialNumber |-> "urn:uuid:" \o CHOOSE u \in UuidTexts : TRUE]
   @@ "$schema" :> schema_uri("1.6"),
   [bomFormat |-> "CycloneDX", specVersion |-> "1.5", version |-> Integer(1),
    serialNumber |-> "urn:uuid:" \o CHOOSE u \in UuidTexts : TRUE],
   [bomFormat |-> "CycloneDX", specVersion |-> "1.6", version |-> Integer(1),
    serialNumber |-> "urn:uuid:" \o CHOOSE u \in UuidTexts : TRUE]
   @@ "$schema" :> schema_uri("1.6")}

\* The texts given to validate_json_structure on one validator.
InstanceContents ==
  {"{",
   json_dumps([bomFormat |-> "CycloneDX", specVersion |-> "1.6",
               version |-> Integer(1)]),
   json_dumps([bomFormat |-> "CycloneDX", specVersion |-> "1.6",
               version |-> Float("1.0")]),
   json_dumps([bomFormat |-> "SPDX", specVersion |-> "1.6"])}

\* No data file read.
NoFiles == <<>>

\* run_complete_validation before its loop.
complete_versions == <<"1.3", "1.4", "1.5", "1.6">>

\* The file perfect_cyclonedx_<version>.json: absent, or the document read
\* from it.
NoFile == [present |-> FALSE, data |-> EmptyDict]

FileOf(d) == [present |-> TRUE, data |-> d]

\* The working directories of run_complete_validation: for each version the
\* file is absent, holds the perfect test data of the version, or holds the
\* empty document.
FileSystems ==
  [Range(complete_versions) -> {"absent", "perfect", "empty"}]

files_of(kind) ==
  [v \in Range(complete_versions) |->
     CASE kind[v] = "absent" -> NoFile
       [] kind[v] = "perfect" ->
            FileOf(create_perfect_test_data(v, CHOOSE u \in UuidTexts : TRUE))
       [] kind[v] = "empty" -> FileOf(EmptyDict)]

\* main() of comprehensive_cyclonedx_tests.py before its loop.
versions_to_test == <<"1.3", "1.4", "1.5", "1.6">>

Init ==
  /\ \/ /\ \/ Input(data, version) /\ pc = "document" /\ versions = <<>>
           \/ /\ data \in SbomDocuments /\ version = "1.6"
              /\ pc = "sbom_structure" /\ versions = <<>>
           \/ /\ StructureInput(data, version)
              /\ pc = "structure" /\ versions = <<>>
           \/ /\ ComprehensiveInput(data, version)
              /\ pc = "comprehensive" /\ versions = <<>>
           \/ /\ Structure13Input(data) /\ version = "1.3"
              /\ pc = "structure_1_3" /\ versions = <<>>
           \/ /\ StructureInput(data, version) /\ version = "1.4"
              /\ data.specVersion = "1.4"
              /\ pc = "structure_1_4" /\ versions = <<>>
           \/ /\ data = EmptyDict /\ version = ""
              /\ pc = "comprehensive_main" /\ versions = versions_to_test
        /\ sbom_content = ""
        /\ files = NoFiles
     \/ /\ data = EmptyDict /\ version = "1.6"
        /\ pc = "validator" /\ versions = <<>>
        /\ sbom_content = ""
        /\ files = NoFiles
     \/ /\ data = EmptyDict /\ version = ""
        /\ pc = "complete_main" /\ versions = complete_versions
        /\ sbom_content = ""
        /\ \E kind \in FileSystems : files = files_of(kind)
     \/ /\ sbom_content \in OnlineContents
        /\ data = EmptyDict /\ version = ""
        /\ pc = "json_schema" /\ versions = <<>>
        /\ files = NoFiles
  /\ issues = <<>>
  \* main() and run_complete_validation print a title before their loop.
  /\ stdout = Count(pc \in {"comprehensive_main", "complete_main"})
  /\ bom_refs = {}
  /\ errors = <<>>
  /\ warnings = <<>>
  /\ report = ""
  /\ other = NoWorker
  /\ all_passed = TRUE
  /\ result = "None"
  /\ calls = <<>>
  /\ total_tests = 0
  /\ passed_tests = 0

DocumentLevel ==
  /\ pc = "document"
  /\ issues' = issues \o document_level(data, version)
  /\ pc' = "metadata"
  /\ stdout' = stdout + document_level_prints(data, version)
  /\ UNCHANGED <<data, version, bom_refs, errors, warnings, report, other,
               versions, all_passed,
               sbom_content, result, calls, files, total_tests, passed_tests>>

MetadataValidation ==
  /\ pc = "metadata"
  /\ issues' = issues \o metadata_validation(data, version)
  /\ pc' = "components"
  /\ stdout' = stdout + metadata_validation_prints(data, version)
  /\ UNCHANGED <<data, version, bom_refs, errors, warnings, report, other,
               versions, all_passed,
               sbom_content, result, calls, files, total_tests, passed_tests>>

\* Variant: the components visited first to last or last to first.
ComponentsValidationAnyOrder ==
  /\ pc = "components"
  /\ LET r == components_validation(data, version)
         n == Len(r.issues)
     IN  /\ issues' \in {issues \o r.issues,
                         issues \o [i \in 1..n |-> r.issues[n + 1 - i]]}
         /\ bom_refs' = r.bom_refs
  /\ pc' = "services"
  /\ stdout' = stdout + 2
  /\ UNCHANGED <<data, version, errors, warnings, report, other,
               versions, all_passed,
               sbom_content, result, calls, files, total_tests, passed_tests>>

ComponentsValidation ==
  /\ pc = "components"
  /\ LET r == components_validation(data, version)
     IN  /\ issues' = issues \o r.issues
         /\ bom_refs' = r.bom_refs
  /\ pc' = "services"
  /\ stdout' = stdout + 2
  /\ UNCHANGED <<data, version, errors, warnings, report, other,
               versions, all_passed,
               sbom_content, result, calls, files, total_tests, passed_tests>>

ServicesValidation ==
  /\ pc = "services"
  /\ LET r == services_validation(data, bom_refs)
     IN  /\ issues' = issues \o r.issues
         /\ bom_refs' = r.bom_refs
  /\ pc' = "dependencies"
  /\ stdout' = stdout + 1
  /\ UNCHANGED <<data, version, errors, warnings, report, other,
               versions, all_passed,
               sbom_content, result, calls, files, total_tests, passed_tests>>

\* Variant: the dependencies looked at only when no issue was found so far.
DependenciesValidationIfClean ==
  /\ pc = "dependencies"
  /\ issues' = IF issues = <<>>
               THEN dependencies_validation(data, bom_refs) ELSE issues
  /\ pc' = "compositions"
  /\ stdout' = stdout + 1
  /\ UNCHANGED <<data, version, bom_refs, errors, warnings, report, other,
               versions, all_passed,
               sbom_content, result, calls, files, total_tests, passed_tests>>

DependenciesValidation ==
  /\ pc = "dependencies"
  /\ issues' = issues \o dependencies_validation(data, bom_refs)
  /\ pc' = "compositions"
  /\ stdout' = stdout + 1
  /\ UNCHANGED <<data, version, bom_refs, errors, warnings, report, other,
               versions, all_passed,
               sbom_content, result, calls, files, total_tests, passed_tests>>

CompositionsValidation ==
  /\ pc = "compositions"
  /\ issues' = issues \o compositions_validation(data)
  /\ pc' = "vulnerabilities"
  /\ stdout' = stdout + 1
  /\ UNCHANGED <<data, version, bom_refs, errors, warnings, report, other,
               versions, all_passed,
               sbom_content, result, calls, files, total_tests, passed_tests>>

VulnerabilitiesValidation ==
  /\ pc = "vulnerabilities"
  /\ issues' = issues \o vulnerabilities_validation(data, version)
  /\ pc' = "external_references"
  /\ stdout' = stdout + vulnerabilities_validation_prints(data, version)
  /\ UNCHANGED <<data, version, bom_refs, errors, warnings, report, other,
               versions, all_passed,
               sbom_content, result, calls, files, total_tests, passed_tests>>

ExternalReferencesValidation ==
  /\ pc = "external_references"
  /\ issues' = issues \o external_references_validation(data)
  /\ pc' = "done"
  /\ UNCHANGED <<stdout, data, version, bom_refs, errors, warnings, report, other,
               versions, all_passed,
               sbom_content, result, calls, files, total_tests, passed_tests>>

\* run_complete_validation: the outcome counted and printed for the issues
\* returned, and the next turn of the loop when the call was made from it.
RunCompleteValidation ==
  /\ pc = "done"
  /\ total_tests' = total_tests + 1
  /\ all_passed' = IF issues # <<>> THEN FALSE ELSE all_passed
  /\ passed_tests' = IF issues # <<>> THEN passed_tests ELSE passed_tests + 1
  /\ report' = IF issues # <<>> THEN "FAILED" ELSE "PASSED"
  /\ pc' = IF files = NoFiles THEN "reported" ELSE "complete_main"
  /\ stdout' = stdout + run_complete_validation_prints(issues)
  /\ UNCHANGED <<data, version, issues, bom_refs, errors, warnings, other,
                 versions, sbom_content, result, calls, files>>

\* CycloneDX16Validator.validate_sbom_structure(data) on a new validator.
ValidateSbomStructure ==
  /\ pc = "sbom_structure"
  /\ errors' = errors \o validate_sbom_structure(data)
  /\ warnings' = warnings \o validate_sbom_structure_warnings(data)
  /\ result' = IF validate_sbom_structure_is_valid(data)
               THEN "True" ELSE "False"
  /\ pc' = "print_results"
  /\ UNCHANGED <<stdout, data, version, issues, bom_refs, report, other,
               versions, all_passed,
               sbom_content, calls, files, total_tests, passed_tests>>

\* CycloneDX16Validator.print_results()
PrintResults ==
  /\ pc = "print_results"
  /\ report' = IF print_results(errors, warnings) THEN "PASSED" ELSE "FAILED"
  /\ pc' = "printed"
  /\ stdout' = stdout + print_results_prints(errors, warnings)
  /\ UNCHANGED <<data, version, issues, bom_refs, errors, warnings, other,
               versions, all_passed,
               sbom_content, result, calls, files, total_tests, passed_tests>>

\* validate_cyclonedx_structure(data, version) of simple_cyclonedx_validation.py
ValidateCyclonedxStructure ==
  /\ pc = "structure"
  /\ issues' = validate_cyclonedx_structure(data, version)
  /\ pc' = "structure_done"
  /\ stdout' = stdout + validate_cyclonedx_structure_prints(data, version)
  /\ UNCHANGED <<data, version, bom_refs, errors, warnings, report, other,
               versions, all_passed,
               sbom_content, result, calls, files, total_tests, passed_tests>>

\* validate_cyclonedx_1_3_structure(data) of validate_cyclonedx_1.3_fix.py
ValidateCyclonedx13Structure ==
  /\ pc = "structure_1_3"
  /\ issues' = validate_cyclonedx_1_3_structure(data)
  /\ pc' = "structure_1_3_done"
  /\ stdout' = stdout + validate_cyclonedx_1_3_structure_prints(data)
  /\ UNCHANGED <<data, version, bom_refs, errors, warnings, report,
               other, versions, all_passed,
               sbom_content, result, calls, files, total_tests, passed_tests>>

\* validate_cyclonedx_1_4_structure(data) of validate_cyclonedx_1.4_fix.py
ValidateCyclonedx14Structure ==
  /\ pc = "structure_1_4"
  /\ issues' = validate_cyclonedx_1_4_structure(data)
  /\ pc' = "structure_1_4_done"
  /\ stdout' = stdout + validate_cyclonedx_1_4_structure_prints(data)
  /\ UNCHANGED <<data, version, bom_refs, errors, warnings, report, other,
               versions, all_passed,
               sbom_content, result, calls, files, total_tests, passed_tests>>

\* validate_comprehensive_structure(data, version)
ValidateComprehensiveStructure ==
  /\ pc = "comprehensive"
  /\ issues' = validate_comprehensive_structure(data, version).issues
  /\ pc' = IF comprehensive_raises(data)
           THEN "comprehensive_raised" ELSE "comprehensive_done"
  /\ stdout' = stdout + validate_comprehensive_structure_prints(data, version)
  /\ UNCHANGED <<data, version, bom_refs, errors, warnings, report, other,
               versions, all_passed,
               sbom_content, result, calls, files, total_tests, passed_tests>>

\* One turn of the loop of main(): the test data of the next version is
\* created and validated.
ComprehensiveTest ==
  /\ pc = "comprehensive_main"
  /\ versions # <<>>
  /\ LET v == Head(versions)
         test_data == create_comprehensive_test_data(v)
         found == validate_comprehensive_structure(test_data, v).issues
     IN  /\ version' = v
         /\ data' = test_data
         /\ issues' = found
         /\ all_passed' = IF found # <<>> THEN FALSE ELSE all_passed
  /\ versions' = Tail(versions)
  /\ stdout' = stdout + validate_comprehensive_structure_prints(data', version')
                + comprehensive_turn_prints(issues')
  /\ UNCHANGED <<pc, bom_refs, errors, warnings, report, other,
               sbom_content, result, calls, files, total_tests, passed_tests>>

\* main() returns its exit code.
ComprehensiveMainReturn ==
  /\ pc = "comprehensive_main"
  /\ versions = <<>>
  /\ report' = IF all_passed THEN "0" ELSE "1"
  /\ pc' = "comprehensive_exit"
  /\ stdout' = stdout + 32
  /\ UNCHANGED <<data, version, issues, bom_refs, errors, warnings, other,
               versions, all_passed,
               sbom_content, result, calls, files, total_tests, passed_tests>>

\* validate_cyclonedx_json_schema(sbom_content) of validate_sboms_online.py
ValidateCyclonedxJsonSchema ==
  /\ pc = "json_schema"
  /\ errors' = validate_cyclonedx_json_schema(sbom_content)
  /\ result' = IF Len(errors') = 0 THEN "True" ELSE "False"
  /\ data' = IF sbom_content \in BrokenTexts
             THEN data ELSE json_loads(sbom_content)
  /\ pc' = "json_schema_done"
  /\ UNCHANGED <<stdout, version, issues, bom_refs, warnings, report, other,
                 versions, all_passed, sbom_content, calls, files,
                 total_tests, passed_tests>>

\* Variant: every call starts from an empty list of errors.
ValidateJsonStructureFresh ==
  /\ pc \in {"validator", "validator_printed"}
  /\ Len(calls) < MaxCalls
  /\ \E text \in InstanceContents :
       /\ sbom_content' = text
       /\ IF text \in BrokenTexts
          THEN /\ errors' = <<"Invalid JSON: " \o JSONDecodeError(text)>>
               /\ result' = "False"
               /\ UNCHANGED <<data, warnings>>
          ELSE LET sbom == json_loads(text)
               IN  /\ data' = sbom
                   /\ errors' = validate_sbom_structure(sbom)
                   /\ warnings' =
                        warnings \o validate_sbom_structure_warnings(sbom)
                   /\ result' = IF validate_sbom_structure_is_valid(sbom)
                                THEN "True" ELSE "False"
  /\ calls' = Append(calls, result')
  /\ pc' = "validator"
  /\ UNCHANGED <<stdout, version, issues, bom_refs, report, other, versions,
                 all_passed, files, total_tests, passed_tests>>

\* validator.validate_json_structure(sbom_content) on a validator that may
\* have been used before.
ValidateJsonStructure ==
  /\ pc \in {"validator", "validator_printed"}
  /\ Len(calls) < MaxCalls
  /\ \E text \in InstanceContents :
       /\ sbom_content' = text
       /\ IF text \in BrokenTexts
          THEN /\ errors' =
                    errors \o <<"Invalid JSON: " \o JSONDecodeError(text)>>
               /\ result' = "False"
               /\ UNCHANGED <<data, warnings>>
          ELSE LET sbom == json_loads(text)
               IN  /\ data' = sbom
                   /\ errors' = errors \o validate_sbom_structure(sbom)
                   /\ warnings' =
                        warnings \o validate_sbom_structure_warnings(sbom)
                   /\ result' = IF validate_sbom_structure_is_valid(sbom)
                                THEN "True" ELSE "False"
  /\ calls' = Append(calls, result')
  /\ pc' = "validator"
  /\ UNCHANGED <<stdout, version, issues, bom_refs, report, other, versions,
                 all_passed, files, total_tests, passed_tests>>

\* validator.validate_sbom_structure(sbom) on a validator that may have been
\* used before.
ValidateSbomStructureOnInstance ==
  /\ pc \in {"validator", "validator_printed"}
  /\ Len(calls) < MaxCalls
  /\ \E sbom \in InstanceDocuments :
       /\ data' = sbom
       /\ errors' = errors \o validate_sbom_structure(sbom)
       /\ warnings' = warnings \o validate_sbom_structure_warnings(sbom)
       /\ result' = IF validate_sbom_structure_is_valid(sbom)
                    THEN "True" ELSE "False"
  /\ calls' = Append(calls, result')
  /\ pc' = "validator"
  /\ UNCHANGED <<stdout, version, issues, bom_refs, report, other, versions,
                 all_passed, sbom_content, files, total_tests, passed_tests>>

\* validator.print_results() after the calls made so far.
PrintResultsOnInstance ==
  /\ pc = "validator"
  /\ report' = IF print_results(errors, warnings) THEN "PASSED" ELSE "FAILED"
  /\ pc' = "validator_printed"
  /\ stdout' = stdout + print_results_prints(errors, warnings)
  /\ UNCHANGED <<data, version, issues, bom_refs, errors, warnings, other,
                 versions, all_passed, sbom_content, result, calls, files,
                 total_tests, passed_tests>>

\* Variant: the test counted before its data file is opened.
CompleteValidationLoadCounted ==
  /\ pc = "complete_main"
  /\ versions # <<>>
  /\ LET v == Head(versions)
     IN  /\ version' = v
         /\ IF ~files[v].present
            THEN /\ total_tests' = total_tests + 1
                 /\ UNCHANGED <<data, issues, bom_refs, pc>>
            ELSE /\ data' = files[v].data
                 /\ issues' = <<>>
                 /\ bom_refs' = {}
                 /\ pc' = "document"
                 /\ UNCHANGED total_tests
  /\ versions' = Tail(versions)
  /\ stdout' = stdout + 3 + Count(~files[Head(versions)].present)
  /\ UNCHANGED <<errors, warnings, report, other, all_passed, sbom_content,
                 result, calls, files, passed_tests>>

\* The head of one turn of the loop of run_complete_validation: the data
\* file of the next version is read, and validate_complete_cyclonedx_schema
\* is called on it, or the file is missing and the turn is over.
CompleteValidationLoad ==
  /\ pc = "complete_main"
  /\ versions # <<>>
  /\ LET v == Head(versions)
     IN  /\ version' = v
         /\ IF ~files[v].present
            THEN UNCHANGED <<data, issues, bom_refs, pc>>
            ELSE /\ data' = files[v].data
                 /\ issues' = <<>>
                 /\ bom_refs' = {}
                 /\ pc' = "document"
  /\ versions' = Tail(versions)
  /\ stdout' = stdout + 3 + Count(~files[Head(versions)].present)
  /\ UNCHANGED <<errors, warnings, report, other, all_passed, sbom_content,
                 result, calls, files, total_tests, passed_tests>>

\* run_complete_validation returns its exit code.
CompleteValidationReturn ==
  /\ pc = "complete_main"
  /\ versions = <<>>
  /\ report' = IF all_passed THEN "0" ELSE "1"
  /\ pc' = "complete_exit"
  /\ stdout' = stdout + 32
  /\ UNCHANGED <<data, version, issues, bom_refs, errors, warnings, other,
                 versions, all_passed, sbom_content, result, calls, files,
                 total_tests, passed_tests>>

Next ==
  \/ DocumentLevel
  \/ MetadataValidation
  \/ ComponentsValidation
  \/ ServicesValidation
  \/ DependenciesValidation
  \/ CompositionsValidation
  \/ VulnerabilitiesValidation
  \/ ExternalReferencesValidation
  \/ RunCompleteValidation
  \/ ValidateSbomStructure
  \/ PrintResults
  \/ ValidateCyclonedxStructure
  \/ ValidateCyclonedx13Structure
  \/ ValidateCyclonedx14Structure
  \/ ValidateComprehensiveStructure
  \/ ComprehensiveTest
  \/ ComprehensiveMainReturn
  \/ ValidateCyclonedxJsonSchema
  \/ ValidateJsonStructure
  \/ ValidateSbomStructureOnInstance
  \/ PrintResultsOnInstance
  \/ CompleteValidationLoad
  \/ CompleteValidationReturn

Spec == Init /\ [][Next]_vars


(***************************************************************************)
(* Two calls at once.  A second worker validates a document, another one   *)
(* or the same; each of its steps is the step of the same name above, on   *)
(* the worker's own arguments and local variables, and the steps of the    *)
(* two workers interleave in any order.  sys.stdout is the one of the      *)
(* process, written by both.                                               *)
(***************************************************************************)
main_vars ==
  <<data, version, pc, issues, bom_refs, errors, warnings, report,
    versions, all_passed,
    sbom_content, result, calls, files, total_tests, passed_tests>>

\* 1.6 documents with one component and one dependency.
graph_document(c, r) ==
  base_document("1.6")
  @@ [components |-> <<library(c)>>,
      dependencies |-> <<[ref |-> r, dependsOn |-> <<"a">>]>>]

\* The first scenario with a second library, lib2, that has no version
\* either.
two_missing_versions ==
  [scenario_missing_version EXCEPT
     !.components = @ \o <<("bom-ref" :> "lib2")
                           @@ [type |-> "library", name |-> "M"]>>]

\* The calls of validate_complete_cyclonedx_schema the workers make.
ConcurrentCalls ==
  {<<graph_document(c, r), "1.6">> : c \in Refs, r \in Refs}
  \cup {<<scenario_missing_version, "1.3">>,
        <<two_missing_versions, "1.3">>,
        <<scenario_schema_present(schema_uri("1.3")), "1.3">>}

\* The documents the workers give to a CycloneDX16Validator of their own.
ConcurrentSboms ==
  {d \in SbomDocuments :
     /\ d.version = Integer(1)
     /\ Has(d, "$schema") /\ d["$schema"] = schema_uri("1.6")
     /\ Has(d, "serialNumber")
     /\ ~Has(d.metadata, "tools")
     /\ Len(d.components) = 1}

InitConcurrent ==
  /\ \/ /\ \E c \in ConcurrentCalls : data = c[1] /\ version = c[2]
        /\ pc = "document"
     \/ data \in ConcurrentSboms /\ version = "1.6" /\ pc = "sbom_structure"
     \/ /\ data \in {base_document(v) : v \in {"1.3", "1.6"}}
        /\ version = "1.6" /\ pc = "structure"
  /\ issues = <<>>
  /\ stdout = 0
  /\ bom_refs = {}
  /\ errors = <<>>
  /\ warnings = <<>>
  /\ report = ""
  /\ versions = <<>>
  /\ all_passed = TRUE
  /\ sbom_content = ""
  /\ result = "None"
  /\ calls = <<>>
  /\ files = NoFiles
  /\ total_tests = 0
  /\ passed_tests = 0
  /\ \/ \E c \in ConcurrentCalls : other = Worker(c[1], c[2], "document")
     \/ \E d \in ConcurrentSboms : other = Worker(d, "1.6", "sbom_structure")

OtherDocumentLevel ==
  /\ other.pc = "document"
  /\ other' = [other EXCEPT
                 !.issues = @ \o document_level(other.data, other.version),
                 !.pc = "metadata"]
  /\ stdout' = stdout + document_level_prints(other.data, other.version)
  /\ UNCHANGED main_vars

OtherMetadataValidation ==
  /\ other.pc = "metadata"
  /\ other' = [other EXCEPT
                 !.issues = @ \o metadata_validation(other.data, other.version),
                 !.pc = "components"]
  /\ stdout' = stdout
                + metadata_validation_prints(other.data, other.version)
  /\ UNCHANGED main_vars

OtherComponentsValidation ==
  /\ other.pc = "components"
  /\ LET r == components_validation(other.data, other.version)
     IN  other' = [other EXCEPT !.issues = @ \o r.issues,
                                !.bom_refs = r.bom_refs,
                                !.pc = "services"]
  /\ stdout' = stdout + 2
  /\ UNCHANGED main_vars

OtherServicesValidation ==
  /\ other.pc = "services"
  /\ LET r == services_validation(other.data, other.bom_refs)
     IN  other' = [other EXCEPT !.issues = @ \o r.issues,
                                !.bom_refs = r.bom_refs,
                                !.pc = "dependencies"]
  /\ stdout' = stdout + 1
  /\ UNCHANGED main_vars

\* Variant: bom_refs a set of the module, the same for every call.
OtherDependenciesValidationShared ==
  /\ other.pc = "dependencies"
  /\ other' = [other EXCEPT
                 !.issues = @ \o dependencies_validation(other.data, bom_refs),
                 !.pc = "compositions"]
  /\ stdout' = stdout + 1
  /\ UNCHANGED main_vars

OtherDependenciesValidation ==
  /\ other.pc = "dependencies"
  /\ other' = [other EXCEPT
                 !.issues =
                   @ \o dependencies_validation(other.data, other.bom_refs),
                 !.pc = "compositions"]
  /\ stdout' = stdout + 1
  /\ UNCHANGED main_vars

OtherCompositionsValidation ==
  /\ other.pc = "compositions"
  /\ other' = [other EXCEPT
                 !.issues = @ \o compositions_validation(other.data),
                 !.pc = "vulnerabilities"]
  /\ stdout' = stdout + 1
  /\ UNCHANGED main_vars

OtherVulnerabilitiesValidation ==
  /\ other.pc = "vulnerabilities"
  /\ other' = [other EXCEPT
                 !.issues =
                   @ \o vulnerabilities_validation(other.data, other.version),
                 !.pc = "external_references"]
  /\ stdout' = stdout
                + vulnerabilities_validation_prints(other.data, other.version)
  /\ UNCHANGED main_vars

OtherExternalReferencesValidation ==
  /\ other.pc = "external_references"
  /\ other' = [other EXCEPT
                 !.issues = @ \o external_references_validation(other.data),
                 !.pc = "done"]
  /\ UNCHANGED <<main_vars, stdout>>

OtherRunCompleteValidation ==
  /\ other.pc = "done"
  /\ other' = [other EXCEPT
                 !.report = IF other.issues # <<>> THEN "FAILED" ELSE "PASSED",
                 !.pc = "reported"]
  /\ stdout' = stdout + run_complete_validation_prints(other.issues)
  /\ UNCHANGED main_vars

OtherValidateSbomStructure ==
  /\ other.pc = "sbom_structure"
  /\ other' = [other EXCEPT
                 !.errors = @ \o validate_sbom_structure(other.data),
                 !.warnings = @ \o validate_sbom_structure_warnings(other.data),
                 !.pc = "print_results"]
  /\ UNCHANGED <<main_vars, stdout>>

OtherPrintResults ==
  /\ other.pc = "print_results"
  /\ other' = [other EXCEPT
                 !.report = IF print_results(other.errors, other.warnings)
                            THEN "PASSED" ELSE "FAILED",
                 !.pc = "printed"]
  /\ stdout' = stdout + print_results_prints(other.errors, other.warnings)
  /\ UNCHANGED main_vars

NextConcurrent ==
  \/ DocumentLevel
  \/ MetadataValidation
  \/ ComponentsValidation
  \/ ServicesValidation
  \/ DependenciesValidation
  \/ CompositionsValidation
  \/ VulnerabilitiesValidation
  \/ ExternalReferencesValidation
  \/ RunCompleteValidation
  \/ ValidateSbomStructure
  \/ PrintResults
  \/ ValidateCyclonedxStructure
  \/ OtherDocumentLevel
  \/ OtherMetadataValidation
  \/ OtherComponentsValidation
  \/ OtherServicesValidation
  \/ OtherDependenciesValidation
  \/ OtherCompositionsValidation
  \/ OtherVulnerabilitiesValidation
  \/ OtherExternalReferencesValidation
  \/ OtherRunCompleteValidation
  \/ OtherValidateSbomStructure
  \/ OtherPrintResults

SpecConcurrent == InitConcurrent /\ [][NextConcurrent]_vars

\* The call has returned; issues is the list it returned.
Returned == pc = "done"

(***************************************************************************)
(* Properties                                                              *)
(***************************************************************************)
\* The report of the call: Passed when no issue was returned.
Passed == Returned /\ issues = <<>>

version_missing(path) ==
  path \o " missing required 'version' field in CycloneDX 1.3"

C1_Case ==
  Returned /\ data = scenario_missing_version /\ version = "1.3"

\* C1, as stated: the 1.3 document whose metadata component and component
\* lib1 both lack a version yields exactly one error in total, the missing
\* version of lib1 (components[0]).
C1_OneErrorInTotal ==
  C1_Case => issues = <<version_missing("components[0]")>>

\* C1, amended: that document yields exactly two errors, the missing version
\* of the metadata component and then the missing version of lib1.
C1_TwoMissingVersions ==
  C1_Case =>
    issues = <<version_missing("metadata.component"),
               version_missing("components[0]")>>

C1_Witness == C1_Case /\ Len(issues) = 2

\* validate_complete_cyclonedx_schema has returned for the document.
C2_Case ==
  /\ Returned
  /\ version = "1.3"
  /\ \E x \in SchemaValues : data = scenario_schema_present(x)

\* validate_cyclonedx_1_3_structure has returned for the document.
C2_Case_1_3 ==
  /\ pc = "structure_1_3_done"
  /\ \E x \in SchemaValues : data = scenario_schema_present(x)

\* C2, as stated: the same document with version 1.0.0 on lib1 and a $schema
\* field yields exactly one error in total, $schema must not be present,
\* from validate_complete_cyclonedx_schema and from
\* validate_cyclonedx_1_3_structure.
C2_OneErrorInTotal ==
  /\ C2_Case => issues = <<"$schema should not be present in 1.3">>
  /\ C2_Case_1_3
       => issues = <<"$schema field should not be present in CycloneDX 1.3">>

\* C2, amended: from validate_complete_cyclonedx_schema that document yields
\* exactly two errors, $schema must not be present and the missing version
\* of the metadata component; from validate_cyclonedx_1_3_structure, which
\* does not look at the metadata component, it yields exactly one, $schema
\* should not be present.
C2_SchemaAndMissingVersion ==
  /\ C2_Case =>
       issues = <<"$schema should not be present in 1.3",
                  version_missing("metadata.component")>>
  /\ C2_Case_1_3
       => issues = <<"$schema field should not be present in CycloneDX 1.3">>

C2_Witness == C2_Case /\ data["$schema"] = schema_uri("1.3") /\ Len(issues) = 2

C3_Case ==
  /\ Returned
  /\ version = "1.6"
  /\ \E at \in {"metadata", "components"} : data = scenario_missing_ref(at)

\* C3: a 1.6 document, valid otherwise, whose dependency 0 has ref main and
\* dependsOn [missing-ref] that nothing declares, fails with a single
\* diagnostic, which names dependency 0 and entry 0 of its dependsOn.
C3_SingleDanglingReference ==
  C3_Case => issues = <<"Dependency 0.dependsOn[0] 'missing-ref' not found">>

C3_Witness ==
  C3_Case /\ data.dependencies[1].dependsOn[1] \notin bom_refs /\ issues # <<>>

C4_Case ==
  /\ Returned
  /\ version \in SupportedVersions
  /\ \E u \in UuidTexts : data = create_perfect_test_data(version, u)

\* C4: for each of 1.3, 1.4, 1.5 and 1.6 the reference document
\* create_perfect_test_data(version) is validated with zero issues, so the
\* report is Passed.
C4_PerfectDataPasses == C4_Case => Passed

C4_Witness == C4_Case /\ version = "1.6" /\ Has(data.components[1], "evidence")

\* The component c at path and every component nested in it, each as
\* <<path, component>>, in document order.
RECURSIVE Subcomponents(_, _)
Subcomponents(c, path) ==
  <<<<path, c>>>>
  \o (IF Has(c, "components")
      THEN LET sub(x, i) ==
                 Subcomponents(x, path \o ".components[" \o Idx(i) \o "]")
           IN  ForEach(c.components, sub)
      ELSE <<>>)

\* Every component of document d: the metadata component, the top-level
\* components and the components nested in them.
AllComponents(d) ==
  (IF Has(metadata_of(d), "component")
   THEN Subcomponents(d.metadata.component, "metadata.component")
   ELSE <<>>)
  \o (IF Has(d, "components")
      THEN LET top(x, i) == Subcomponents(x, "components[" \o Idx(i) \o "]")
           IN  ForEach(d.components, top)
      ELSE <<>>)

\* The bom-ref declarations of document d, one entry per declaring entity.
Declarations(d) ==
  LET of_component(pc_, i) ==
        IF Has(pc_[2], "bom-ref") THEN <<pc_[2]["bom-ref"]>> ELSE <<>>
      of_service(x, i) == IF Has(x, "bom-ref") THEN <<x["bom-ref"]>> ELSE <<>>
  IN  ForEach(AllComponents(d), of_component)
      \o (IF Has(d, "services") THEN ForEach(d.services, of_service) ELSE <<>>)

duplicate_reported(r) ==
  \/ ("Duplicate bom-ref: " \o r) \in Range(issues)
  \/ ("Duplicate service bom-ref: " \o r) \in Range(issues)

\* C5, as stated: when two identifier-bearing entities of the document (the
\* metadata component, a top-level or nested component, a service) carry the
\* same bom-ref, the issues returned hold a duplicate error for that bom-ref.
C5_DuplicateAlwaysReported ==
  Returned =>
    LET decl == Declarations(data)
    IN  \A i, j \in 1..Len(decl) :
          i < j /\ decl[i] = decl[j] => duplicate_reported(decl[i])

ref_not_found(i, r) ==
  "Dependency " \o Idx(i) \o " ref '" \o r \o "' not found in bom-refs"

depends_on_not_found(i, j, r) ==
  "Dependency " \o Idx(i) \o ".dependsOn[" \o Idx(j) \o "] '" \o r
  \o "' not found"

\* C6, as stated: the ref of a dependency and each entry of its dependsOn
\* yield a not-found error if and only if no entity of the document (metadata
\* component, top-level or nested component, service) declares it as bom-ref.
C6_ErrorIffUndeclared ==
  Returned /\ Has(data, "dependencies") =>
    LET declared == Range(Declarations(data))
        deps == data.dependencies
    IN  \A i \in 1..Len(deps) :
          /\ Has(deps[i], "ref") =>
               (ref_not_found(i, deps[i].ref) \in Range(issues)
                  <=> deps[i].ref \notin declared)
          /\ Has(deps[i], "dependsOn") =>
               \A j \in 1..Len(deps[i].dependsOn) :
                 depends_on_not_found(i, j, deps[i].dependsOn[j])
                     \in Range(issues)
                   <=> deps[i].dependsOn[j] \notin declared

evidence_not_available(path, v) ==
  path \o " evidence field not available in " \o v

\* validate_complete_cyclonedx_schema has returned, for 1.3 or 1.4.
C7_Case == Returned /\ version \in {"1.3", "1.4"}

\* validate_cyclonedx_1_3_structure has returned, or
\* validate_cyclonedx_structure has for 1.3 or 1.4.
C7_CaseOfScripts ==
  \/ pc = "structure_1_3_done"
  \/ pc = "structure_done" /\ version \in {"1.3", "1.4"}

\* Issue e of one of the two scripts is an evidence diagnostic for the
\* component at path: it says that evidence is not available and names the
\* path, or the index when the component is a top-level one.
script_evidence_diagnostic(e, path) ==
  /\ Contains(e, "evidence")
  /\ Contains(e, "not available")
  /\ \/ Contains(e, path)
     \/ /\ Has(data, "components")
        /\ \E i \in 1..Len(data.components) :
             /\ path = "components[" \o Idx(i) \o "]"
             /\ startswith(e, "Component " \o Idx(i) \o " ")

\* Every component with evidence, at any place, has its error from
\* validate_complete_cyclonedx_schema.
C7_EvidenceNeverIgnoredByCompleteValidation ==
  C7_Case =>
    LET all == AllComponents(data)
    IN  \A k \in 1..Len(all) :
          Has(all[k][2], "evidence") =>
            evidence_not_available(all[k][1], version) \in Range(issues)

\* Every top-level component with evidence has its error from the scripts.
C7_EvidenceOfTopLevelNeverIgnoredByScripts ==
  (C7_CaseOfScripts /\ Has(data, "components")) =>
    \A i \in 1..Len(data.components) :
      Has(data.components[i], "evidence") =>
        \E e \in Range(issues) :
          script_evidence_diagnostic(e, "components[" \o Idx(i) \o "]")

\* C7: for version 1.3, and for 1.4, every component of the document that
\* carries an evidence field (the metadata component, a top-level component,
\* a component nested at any depth) has an evidence-not-available error of
\* its own among the issues returned, whichever of
\* validate_complete_cyclonedx_schema, validate_cyclonedx_1_3_structure and
\* validate_cyclonedx_structure validated the document.
C7_EvidenceNeverIgnored ==
  /\ C7_EvidenceNeverIgnoredByCompleteValidation
  /\ C7_CaseOfScripts =>
       LET all == AllComponents(data)
       IN  \A k \in 1..Len(all) :
             Has(all[k][2], "evidence") =>
               \E e \in Range(issues) :
                 script_evidence_diagnostic(e, all[k][1])

\* validate_cyclonedx_1_3_structure has returned no issue for a document
\* whose metadata component, and no other component, carries evidence.
C7_IgnoredState ==
  /\ pc = "structure_1_3_done"
  /\ Has(data, "metadata") /\ Has(data.metadata, "component")
  /\ Has(data.metadata.component, "evidence")
  /\ Has(data, "components")
  /\ \A i \in 1..Len(data.components) : ~Has(data.components[i], "evidence")
  /\ \A e \in Range(issues) : ~Contains(e, "evidence")

\* The license choices of document d that the validator visits, each as
\* <<path, license choice>>.
LicenseChoicesOf(d) ==
  LET of_metadata(x, i) == <<<<"metadata.licenses[" \o Idx(i) \o "]", x>>>>
      of_component(pc_, n) ==
        LET of_licenses(x, i) ==
              <<<<pc_[1] \o ".licenses[" \o Idx(i) \o "]", x>>>>
        IN  IF Has(pc_[2], "licenses")
            THEN ForEach(pc_[2].licenses, of_licenses) ELSE <<>>
  IN  (IF Has(metadata_of(d), "licenses")
       THEN ForEach(d.metadata.licenses, of_metadata) ELSE <<>>)
      \o ForEach(AllComponents(d), of_component)

exactly_one_of_errors(path) ==
  {path \o " must have either 'license' or 'expression'",
   path \o " cannot have both 'license' and 'expression'"}

C8_Case == Returned /\ data \in LicenseDocuments

\* C8: a license choice with both license and expression, and one with
\* neither, has an exactly-one-of error at its path among the issues; a
\* license choice with exactly one of the two has none.
C8_ExactlyOneOf ==
  C8_Case =>
    LET all == LicenseChoicesOf(data)
    IN  \A k \in 1..Len(all) :
          (exactly_one_of_errors(all[k][1]) \cap Range(issues) # {})
            <=> (Has(all[k][2], "license") <=> Has(all[k][2], "expression"))

C8_Witness ==
  /\ C8_Case
  /\ Len(data.metadata.licenses) = 2
  /\ DOMAIN data.metadata.licenses[1] = {"license", "expression"}
  /\ data.metadata.licenses[2] = EmptyDict
  /\ DOMAIN data.components[1].licenses[1] = {"expression"}
  /\ "metadata.licenses[0] cannot have both 'license' and 'expression'"
       \in Range(issues)
  /\ "metadata.licenses[1] must have either 'license' or 'expression'"
       \in Range(issues)

hash_path(place) ==
  CASE place = "first" -> "components[0].hashes[0]"
    [] place = "second" -> "components[1].hashes[1]"
    [] place = "metadata" -> "metadata.component.hashes[0]"
    [] place = "reference" -> "components[0].externalReferences[0].hashes[0]"

all_hex(s) == \A i \in 1..Len(s) : IsHex(Char(s, i))

\* C9, as stated: for each of the 12 algorithms, a hash whose content has a
\* length other than the expected one yields exactly one error, which names
\* the path of that hash; content of the expected length made of hex digits
\* yields none.
C9_WrongLengthOneError ==
  Returned /\ version = "1.5" =>
    \A p \in HashPlaces, h \in HashObjects :
      (/\ data = hash_document(h, p)
       /\ Has(h, "alg") /\ Has(h, "content")
       /\ h.alg \in Range(valid_algorithms))
      => /\ Len(h.content) # patterns(h.alg) =>
              Len(issues) = 1 /\ startswith(issues[1], hash_path(p) \o " ")
         /\ Len(h.content) = patterns(h.alg) /\ all_hex(h.content) =>
              issues = <<>>

\* An issue of a rule that validate_complete_cyclonedx_schema and
\* validate_component_structure gate on the version.
version_rule_issue(e, v) ==
  \/ e = "Missing $schema field (required in " \o v \o "+)"
  \/ startswith(e, "Incorrect $schema for " \o v)
  \/ e = "$schema should not be present in " \o v
  \/ Contains(e, " not available in " \o v)
  \/ Contains(e, " field in CycloneDX " \o v)
  \/ Contains(e, " in CycloneDX " \o v)

\* C10, as stated: for a version outside 1.3, 1.4, 1.5 and 1.6 the issues
\* hold a dedicated unsupported-version diagnostic, and no issue comes from
\* applying the version rules of a known version to the document.
C10_UnsupportedVersionDiagnostic ==
  Returned /\ version \notin SupportedVersions =>
    /\ \E k \in 1..Len(issues) : Contains(issues[k], "nsupported")
    /\ \A k \in 1..Len(issues) : ~version_rule_issue(issues[k], version)

\* C11: a report is Passed if and only if it holds no error, whatever the
\* number of warnings: print_results of a CycloneDX16Validator passes exactly
\* when errors is empty, and run_complete_validation, whose issues are all
\* errors, passes exactly when issues is empty.
C11_PassedIffNoErrors ==
  /\ pc = "printed" =>
       /\ report \in {"PASSED", "FAILED"}
       /\ report = "PASSED" <=> errors = <<>>
  /\ pc = "reported" =>
       /\ report \in {"PASSED", "FAILED"}
       /\ report = "PASSED" <=> issues = <<>>

C11_Witness ==
  pc = "printed" /\ report = "PASSED" /\ errors = <<>> /\ Len(warnings) = 3

\* The document d with a well-formed serialNumber.
with_serial_number(d) ==
  [serialNumber |-> "urn:uuid:" \o CHOOSE u \in UuidTexts : TRUE] @@ d

\* C12, as stated: for every supported version, a document that has no
\* serialNumber and is valid otherwise (with a serialNumber it has no error)
\* has no error: none from validate_complete_cyclonedx_schema, none from
\* validate_cyclonedx_structure and none from a CycloneDX16Validator.
C12_MissingSerialNoError ==
  version \in SupportedVersions /\ ~Has(data, "serialNumber") =>
    /\ (/\ pc = "done"
        /\ validate_complete_cyclonedx_schema(
             with_serial_number(data), version) = <<>>)
       => issues = <<>>
    /\ (/\ pc = "structure_done"
        /\ validate_cyclonedx_structure(
             with_serial_number(data), version) = <<>>)
       => issues = <<>>
    /\ (/\ pc = "printed"
        /\ validate_sbom_structure(with_serial_number(data)) = <<>>)
       => errors = <<>> /\ report = "PASSED"

\* The issues that are no diagnostics of the reference graph.
structural_issues ==
  SelectSeq(issues,
            LAMBDA e : ~startswith(e, "Duplicate ")
                       /\ ~startswith(e, "Dependency "))

C13_Case == Returned /\ structural_issues # <<>>

\* C13: the reference-graph checks run whatever structural errors were found:
\* when the call returns with structural errors among the issues, every
\* dependency ref and dependsOn entry that nothing declares has its not-found
\* error, and every bom-ref that a later top-level component or a service
\* repeats has its duplicate error, among the issues of the same call.
C13_GraphChecksAlwaysRun ==
  C13_Case =>
    LET declared == Range(Declarations(data))
        deps == IF Has(data, "dependencies") THEN data.dependencies ELSE <<>>
        cs == IF Has(data, "components") THEN data.components ELSE <<>>
        ss == IF Has(data, "services") THEN data.services ELSE <<>>
    IN  /\ \A i \in 1..Len(deps) :
             /\ (Has(deps[i], "ref") /\ deps[i].ref \notin declared)
                => ref_not_found(i, deps[i].ref) \in Range(issues)
             /\ Has(deps[i], "dependsOn") =>
                  \A j \in 1..Len(deps[i].dependsOn) :
                    deps[i].dependsOn[j] \notin declared =>
                      depends_on_not_found(i, j, deps[i].dependsOn[j])
                        \in Range(issues)
        /\ \A i, j \in 1..Len(cs) :
             (/\ i < j
              /\ Has(cs[i], "bom-ref") /\ Has(cs[j], "bom-ref")
              /\ cs[i]["bom-ref"] = cs[j]["bom-ref"])
             => ("Duplicate bom-ref: " \o cs[i]["bom-ref"]) \in Range(issues)
        /\ \A i \in 1..Len(cs), k \in 1..Len(ss) :
             (/\ Has(cs[i], "bom-ref") /\ Has(ss[k], "bom-ref")
              /\ cs[i]["bom-ref"] = ss[k]["bom-ref"])
             => ("Duplicate service bom-ref: " \o ss[k]["bom-ref"])
                  \in Range(issues)

C13_Witness ==
  /\ C13_Case
  /\ Len(structural_issues) >= 3
  /\ "Duplicate bom-ref: a" \in Range(issues)
  /\ "Duplicate service bom-ref: a" \in Range(issues)
  /\ ref_not_found(1, "zz") \in Range(issues)
  /\ depends_on_not_found(1, 1, "zz") \in Range(issues)

\* The external references of document d that the validator visits, each as
\* <<path, external reference>>.
ExternalReferencesOf(d) ==
  LET of_document(x, i) == <<<<"externalReferences[" \o Idx(i) \o "]", x>>>>
      of_component(pc_, n) ==
        LET of_references(x, i) ==
              <<<<pc_[1] \o ".externalReferences[" \o Idx(i) \o "]", x>>>>
        IN  IF Has(pc_[2], "externalReferences")
            THEN ForEach(pc_[2].externalReferences, of_references) ELSE <<>>
  IN  ForEach(AllComponents(d), of_component)
      \o (IF Has(d, "externalReferences")
          THEN ForEach(d.externalReferences, of_document) ELSE <<>>)

\* C14, as stated, for external references: each violated rule of an external
\* reference (url present, type present, type of the closed set, url
\* well-formed, every nested hash well-formed) has its own diagnostic at the
\* path of the reference, whatever other rules of that reference are violated.
C14_OneDiagnosticPerViolation ==
  Returned =>
    LET all == ExternalReferencesOf(data)
        reported(e) == e \in Range(issues)
    IN  \A k \in 1..Len(all) :
          LET path == all[k][1]
              ref == all[k][2]
          IN  /\ (~Has(ref, "url") \/ ~Has(ref, "type"))
                 => reported(path \o " missing required fields (url, type)")
              /\ (Has(ref, "type") /\ ref.type \notin valid_reference_types)
                 => reported(path \o " invalid type: " \o ref.type)
              /\ (Has(ref, "url") /\ ~is_valid_url(ref.url))
                 => reported(path \o " invalid URL format")
              /\ Has(ref, "hashes") =>
                   \A i \in 1..Len(ref.hashes) :
                     \A e \in Range(validate_hash_object(
                                ref.hashes[i],
                                path \o ".hashes[" \o Idx(i) \o "]")) :
                       reported(e)

\* Both calls of validate_complete_cyclonedx_schema have returned.
both_returned ==
  /\ pc \in {"done", "reported"}
  /\ other.pc \in {"done", "reported"}

alone(w) ==
  /\ w.pc \in {"done", "reported"}
     => w.issues = validate_complete_cyclonedx_schema(w.data, w.version)
  /\ w.pc = "reported"
     => w.report = IF validate_complete_cyclonedx_schema(w.data, w.version)
                      = <<>>
                   THEN "PASSED" ELSE "FAILED"
  /\ w.pc \in {"print_results", "printed"}
     => /\ w.errors = validate_sbom_structure(w.data)
        /\ w.warnings = validate_sbom_structure_warnings(w.data)
  /\ w.pc = "printed"
     => w.report = IF validate_sbom_structure(w.data) = <<>>
                   THEN "PASSED" ELSE "FAILED"

\* Two documents validated at once, their steps interleaved in any order,
\* each get the report they get when validated alone, and no step modifies
\* either document.
C16_NoInterference ==
  /\ [](/\ alone([data |-> data, version |-> version, pc |-> pc,
                  issues |-> issues, bom_refs |-> bom_refs,
                  errors |-> errors, warnings |-> warnings,
                  report |-> report])
        /\ alone(other))
  /\ [][/\ data' = data /\ version' = version
        /\ other'.data = other.data /\ other'.version = other.version]_vars

\* C16: validation has no side effects and shares no mutable state: two
\* distinct documents validated at once, their steps interleaved in any
\* order, each get the report they get when validated alone, no step
\* modifies either document, and no step writes to sys.stdout.
C16_NoSideEffects ==
  /\ C16_NoInterference
  /\ [][stdout' = stdout]_vars

\* Both calls have returned, with different reports and different sets of
\* declared bom-refs, and both have written to sys.stdout.
C16_BothPrinted ==
  /\ pc = "done" /\ other.pc = "done"
  /\ data # other.data
  /\ issues # <<>> /\ other.issues # <<>>
  /\ issues # other.issues
  /\ bom_refs # other.bom_refs
  /\ stdout = validate_complete_cyclonedx_schema_prints(data, version)
               + validate_complete_cyclonedx_schema_prints(other.data,
                                                           other.version)

\* C17, as stated: for each version 1.3, 1.4, 1.5 and 1.6
\* validate_comprehensive_structure applied to
\* create_comprehensive_test_data(version) returns an empty list, and the
\* comprehensive test run ends with exit code 0.
C17_ComprehensiveDataPasses ==
  /\ (pc = "comprehensive_main" /\ version \in SupportedVersions)
     => issues = <<>>
  /\ pc = "comprehensive_exit" => report = "0"

\* The error diagnostics of the finished validation, whichever validator
\* made it: the issues returned, or the errors of the CycloneDX16Validator.
error_diagnostics ==
  IF pc \in {"print_results", "printed"} THEN errors ELSE issues

validation_finished ==
  pc \in {"done", "structure_done", "structure_1_4_done", "print_results"}

schema_error == \E e \in Range(error_diagnostics) : Contains(e, "$schema")

\* C18, as stated: when a validation for 1.4, 1.5 or 1.6 has finished, a
\* document with no $schema, or with a $schema other than the URI of the
\* version, has an error about $schema; when a validation for 1.3 has
\* finished, a document has an error about $schema exactly when it carries
\* one.
C18_SchemaEnforced ==
  validation_finished =>
    /\ (version \in {"1.4", "1.5", "1.6"}
        /\ (~Has(data, "$schema") \/ data["$schema"] # schema_uri(version)))
       => schema_error
    /\ version = "1.3" => (schema_error <=> Has(data, "$schema"))

\* The same for the validators other than CycloneDX16Validator.
C18_SchemaEnforcedByFunctions ==
  pc # "print_results" => C18_SchemaEnforced

\* The entries of the assemblies and dependencies lists of the compositions
\* of document d.
composition_entries(d) ==
  IF ~Has(d, "compositions") THEN {}
  ELSE UNION {(IF Has(d.compositions[i], "assemblies")
               THEN Range(d.compositions[i].assemblies) ELSE {})
              \cup (IF Has(d.compositions[i], "dependencies")
                    THEN Range(d.compositions[i].dependencies) ELSE {}) :
                i \in 1..Len(d.compositions)}

\* C19, as stated: when validation has returned, every entry of a
\* composition's assemblies or dependencies list that no component or
\* service declares is named by an issue of the report.
C19_CompositionEntriesChecked ==
  Returned =>
    \A x \in composition_entries(data) \ bom_refs :
      \E e \in Range(issues) : Contains(e, x)

\* The document declares the format and the version whose rules are applied.
declares_version_applied ==
  /\ Has(data, "bomFormat") /\ data.bomFormat = "CycloneDX"
  /\ Has(data, "specVersion") /\ data.specVersion = version

\* C20, as stated: a validation that applied the rules of a version finishes
\* without error only on a document that declares that version: no document
\* passes under the rules of a version other than its own specVersion.
C20_DeclaredVersionPolicy ==
  (pc \in {"done", "structure_done", "print_results"}
   /\ error_diagnostics = <<>>)
  => declares_version_applied

\* The same for validate_cyclonedx_structure and CycloneDX16Validator.
C20_DeclaredVersionChecked ==
  pc # "done" => C20_DeclaredVersionPolicy

\* The entries of the data lists of the services of document d, each as
\* <<path, entry>>.
ServiceDataOf(d) ==
  LET of_service(service, i) ==
        LET of_data(x, j) ==
              <<<<"services[" \o Idx(i) \o "].data[" \o Idx(j) \o "]", x>>>>
        IN  IF Has(service, "data") THEN ForEach(service.data, of_data)
            ELSE <<>>
  IN  IF Has(d, "services") THEN ForEach(d.services, of_service) ELSE <<>>

\* C21, as stated: when validation has returned, every entry of a service's
\* data list whose flow is missing or outside the four values has an issue
\* about its flow, and every entry whose classification is missing or is the
\* empty string has an issue about its classification.
C21_ServiceDataChecked ==
  Returned =>
    LET all == ServiceDataOf(data)
    IN  \A k \in 1..Len(all) :
          LET path == all[k][1]
              x == all[k][2]
          IN  /\ (~Has(x, "flow") \/ x.flow \notin valid_flows)
                 => path \o " invalid or missing flow" \in Range(issues)
              /\ (~Has(x, "classification") \/ x.classification = "")
                 => \E e \in Range(issues) :
                      startswith(e, path) /\ Contains(e, "classification")

\* The same with the empty classification left out: a missing flow, a flow
\* outside the four values and a missing classification each have an issue.
C21_MissingFieldsChecked ==
  Returned =>
    LET all == ServiceDataOf(data)
    IN  \A k \in 1..Len(all) :
          LET path == all[k][1]
              x == all[k][2]
          IN  /\ (~Has(x, "flow") \/ x.flow \notin valid_flows)
                 => path \o " invalid or missing flow" \in Range(issues)
              /\ ~Has(x, "classification")
                 => path \o " missing classification" \in Range(issues)

\* metadata.tools of the document, when it has one.
has_tools == Has(data, "metadata") /\ Has(data.metadata, "tools")

tools_error == \E e \in Range(error_diagnostics) : Contains(e, "Tool")

\* C22, as stated: when a validation has finished on a document with
\* metadata.tools, then for 1.3 and 1.4 tools that are not a flat list, or a
\* list entry without vendor, name or version, have an error; for 1.5 and
\* 1.6 tools that are not an object with a components list have an error,
\* and every issue of the component procedure on an entry of that list is
\* in the report of validate_complete_cyclonedx_schema.
C22_ToolsShapeChecked ==
  (pc \in {"done", "structure_1_4_done", "print_results"} /\ has_tools) =>
    LET tools == data.metadata.tools
    IN  /\ version \in {"1.3", "1.4"}
           => /\ ~isinstance(tools, "list") => tools_error
              /\ (/\ isinstance(tools, "list")
                  /\ \E i \in 1..Len(tools.v) :
                       \E k \in {"vendor", "name", "version"} :
                         ~Has(tools.v[i], k))
                 => tools_error
        /\ version \in {"1.5", "1.6"}
           => /\ (~isinstance(tools, "dict") \/ ~Has(tools.v, "components"))
                 => tools_error
              /\ (/\ pc = "done"
                  /\ isinstance(tools, "dict")
                  /\ Has(tools.v, "components"))
                 => \A i \in 1..Len(tools.v.components) :
                      Range(validate_component_structure(
                              tools.v.components[i],
                              "tools.components[" \o Idx(i) \o "]",
                              version))
                      \subseteq Range(issues)

\* The same for the validators other than CycloneDX16Validator.
C22_ToolsShapeCheckedByFunctions ==
  pc # "print_results" => C22_ToolsShapeChecked

\* An error about the supplier of the i-th top-level component: in the report
\* of validate_complete_cyclonedx_schema an issue at the path of that
\* supplier, in the other reports, which carry no path, an issue that names
\* the supplier.
supplier_error(i) ==
  LET path == "components[" \o Idx(i) \o "]"
  IN  IF pc = "done"
      THEN \E e \in Range(issues) :
             startswith(e, path \o " supplier")
             \/ startswith(e, path \o ".supplier")
      ELSE \E e \in Range(error_diagnostics) :
             Contains(e, "upplier")
             /\ (pc = "structure_1_4_done"
                 => startswith(e, "Component " \o Idx(i) \o " "))

\* C23, as stated: when a validation has finished, a top-level component
\* whose supplier is not a string has an error in 1.3, and one whose supplier
\* is not an object, or is an object without name, has an error in 1.4, 1.5
\* and 1.6.
C23_SupplierShapeChecked ==
  (pc \in {"done", "structure_1_4_done", "print_results"}
   /\ Has(data, "components")) =>
    \A i \in 1..Len(data.components) :
      LET c == data.components[i]
      IN  Has(c, "supplier") =>
            /\ (version = "1.3" /\ ~isinstance(c.supplier, "str"))
               => supplier_error(i)
            /\ (/\ version \in {"1.4", "1.5", "1.6"}
                /\ \/ ~isinstance(c.supplier, "dict")
                   \/ ~Has(c.supplier.v, "name"))
               => supplier_error(i)

\* The same for the validators other than CycloneDX16Validator.
C23_SupplierShapeCheckedByFunctions ==
  pc # "print_results" => C23_SupplierShapeChecked

\* The issue of a callstack frame without module, for the i-th frame of the
\* evidence of the component at path.
module_missing(path, i) ==
  path \o ".evidence.callstack.frames[" \o Idx(i)
  \o "] missing required 'module' field in 1.5"

\* The indexes of the callstack frames of component c that have no module.
frames_without_module(c) ==
  IF Has(c, "evidence") /\ Has(c.evidence, "callstack")
     /\ Has(c.evidence.callstack, "frames")
  THEN {i \in 1..Len(c.evidence.callstack.frames) :
          ~Has(c.evidence.callstack.frames[i], "module")}
  ELSE {}

\* C24: when validation has returned, every callstack frame without module
\* of every component has its missing-module issue if the version is 1.5,
\* and under every other version, 1.6 and the versions that do not allow
\* evidence included, no issue is about module.
C24_ModuleRequiredOnlyIn_1_5 ==
  Returned =>
    LET all == AllComponents(data)
    IN  /\ version = "1.5"
           => \A k \in 1..Len(all) :
                \A i \in frames_without_module(all[k][2]) :
                  module_missing(all[k][1], i) \in Range(issues)
        /\ version # "1.5"
           => \A e \in Range(issues) : ~Contains(e, "'module'")

\* A 1.5 document with a frame without module in a nested component and its
\* issue, and frames without module met under 1.6 and under 1.4.
C24_Witness ==
  /\ Returned
  /\ version = "1.5"
  /\ Has(data, "components") /\ Len(data.components) >= 1
  /\ Has(data.components[1], "components")
  /\ frames_without_module(data.components[1].components[1]) # {}
  /\ module_missing("components[0].components[0]", 1) \in Range(issues)

C24_WitnessOtherVersions ==
  /\ Returned
  /\ version \in {"1.6", "1.4"}
  /\ \E k \in 1..Len(AllComponents(data)) :
       frames_without_module(AllComponents(data)[k][2]) # {}

\* The issues the rules of the component procedure give for component c at
\* path under version v, written rule by rule: type, name, version, supplier
\* shape, scope, hashes, licenses and the gating of evidence.
component_rule_issues(c, path, v) ==
  (IF ~Has(c, "type") THEN {path \o " missing required 'type' field"}
   ELSE IF c.type \notin valid_types
   THEN {path \o " invalid type: " \o c.type} ELSE {})
  \cup (IF ~Has(c, "name") THEN {path \o " missing required 'name' field"}
        ELSE {})
  \cup (IF v = "1.3" /\ ~Has(c, "version") THEN {version_missing(path)}
        ELSE {})
  \cup (IF Has(c, "supplier") /\ v = "1.3" /\ ~isinstance(c.supplier, "str")
        THEN {path \o " supplier should be string in 1.3"} ELSE {})
  \cup (IF /\ Has(c, "supplier") /\ v \in {"1.4", "1.5", "1.6"}
           /\ ~isinstance(c.supplier, "dict")
        THEN {path \o " supplier should be object in " \o v \o "+"} ELSE {})
  \cup (IF Has(c, "scope") /\ c.scope \notin valid_scopes
        THEN {path \o " invalid scope: " \o c.scope} ELSE {})
  \cup (IF Has(c, "hashes")
        THEN UNION {Range(validate_hash_object(
                            c.hashes[i],
                            path \o ".hashes[" \o Idx(i) \o "]")) :
                      i \in 1..Len(c.hashes)}
        ELSE {})
  \cup (IF Has(c, "licenses")
        THEN UNION {Range(validate_license_choice(
                            c.licenses[i],
                            path \o ".licenses[" \o Idx(i) \o "]")) :
                      i \in 1..Len(c.licenses)}
        ELSE {})
  \cup (IF Has(c, "evidence") /\ v \in {"1.3", "1.4"}
        THEN {evidence_not_available(path, v)} ELSE {})

\* The issues of the report at path, or below it in a field of the
\* component at path that is not its list of nested components.
issues_at(path) ==
  {e \in Range(issues) :
     /\ startswith(e, path)
     /\ ~startswith(e, path \o ".components[")
     /\ ~startswith(e, path \o ".evidence.")}

\* C25: when validation has returned, every component of the document, at
\* the top level or nested at any depth, has at its own path, which lists
\* the index at every level, every issue that the rules give for it under
\* the version of the call.
C25_NestedComponentsSameRules ==
  (Returned /\ version \in SupportedVersions) =>
    LET all == AllComponents(data)
    IN  \A k \in 1..Len(all) :
          startswith(all[k][1], "components[") =>
            component_rule_issues(all[k][2], all[k][1], version)
            \subseteq issues_at(all[k][1])

\* A 1.3 document whose component nested two levels deep has a supplier
\* object, with the issue at components[0].components[1].components[0].
C25_Witness ==
  /\ Returned
  /\ version = "1.3"
  /\ data \in NestedDocuments("1.3")
  /\ "components[0].components[1].components[0] supplier should be string in 1.3"
       \in Range(issues)
  /\ \E e \in Range(issues) : startswith(e, "components[0].components[1] ")

\* An error about the revision of the document: an error diagnostic that
\* names the version and is not about a component, a tool or a service.
revision_error ==
  \E e \in Range(error_diagnostics) :
    /\ Contains(e, "version")
    /\ ~startswith(e, "components[")
    /\ ~startswith(e, "services[")
    /\ ~startswith(e, "metadata")

\* C26, as stated: when validate_complete_cyclonedx_schema or
\* CycloneDX16Validator.validate_sbom_structure has finished on a document
\* whose version field is an integer below 1, there is an error about the
\* version.
C26_RevisionChecked ==
  (pc \in {"done", "print_results"} /\ Has(data, "version")
   /\ data.version.t = "int" /\ data.version.v < 1)
    => revision_error

\* C26 for CycloneDX16Validator alone: an integer version field below 1 has
\* the error Invalid version, and a version field of 1 has none.
C26_RevisionCheckedByValidator ==
  (pc = "print_results" /\ Has(data, "version") /\ data.version.t = "int") =>
    (data.version.v < 1 <=>
       ("Invalid version: " \o ToString(data.version.v)
          \o ", must be integer >= 1") \in Range(errors))

\* C27, as stated: when validate_cyclonedx_json_schema has returned on the
\* text of a document that has all five required fields and declares 1.3,
\* 1.4, 1.5 or 1.6, no error names the specVersion, and when the metadata has
\* timestamp and tools and every component is an object with type and name
\* the document is reported valid.
C27_SupportedVersionsAccepted ==
  (/\ pc = "json_schema_done"
   /\ sbom_content \notin BrokenTexts
   /\ \A f \in {"bomFormat", "specVersion", "version", "metadata",
                "components"} : Has(data, f)
   /\ data.specVersion \in SupportedVersions)
    => /\ \A e \in Range(errors) : ~Contains(e, "specVersion")
       /\ (/\ data.bomFormat = "CycloneDX"
           /\ Has(data.metadata, "timestamp") /\ Has(data.metadata, "tools")
           /\ isinstance(data.components, "list")
           /\ \A i \in 1..Len(data.components.v) :
                /\ isinstance(data.components.v[i], "dict")
                /\ Has(data.components.v[i].v, "type")
                /\ Has(data.components.v[i].v, "name"))
          => result = "True"

\* C27 for the versions validate_cyclonedx_json_schema lists: the same with
\* 1.3, 1.4 and 1.5 as the versions declared.
C27_ListedVersionsAccepted ==
  (pc = "json_schema_done" /\ sbom_content \notin BrokenTexts
   /\ Has(data, "specVersion") /\ data.specVersion # "1.6")
    => C27_SupportedVersionsAccepted

\* C28: a call of CycloneDX16Validator.validate_sbom_structure returns False
\* exactly when the call appended an entry to errors, whatever it appended
\* to warnings.
C28_FalseIffErrorAppended ==
  [][(pc = "sbom_structure" /\ pc' = "print_results")
       => (result' = "False" <=> Len(errors') > Len(errors))]_vars

\* A call that appended two warnings and no error, and returned True.
C28_Witness ==
  /\ pc = "print_results"
  /\ result = "True"
  /\ errors = <<>>
  /\ Len(warnings) >= 2

\* A call that appended an error and no warning, and returned False.
C28_WitnessFalse ==
  /\ pc = "print_results"
  /\ result = "False"
  /\ errors # <<>>
  /\ warnings = <<>>

\* A call on a document whose version is not an integer: it appended the
\* error of the version and returned False.
C28_WitnessNotInteger ==
  /\ pc = "print_results"
  /\ result = "False"
  /\ Has(data, "version") /\ ~isinstance(data.version, "int")
  /\ \E e \in Range(errors) : startswith(e, "Invalid version: ")

\* q is p with entries added at its end.
extends(q, p) == Len(q) >= Len(p) /\ SubSeq(q, 1, Len(p)) = p

\* A step on one CycloneDX16Validator that keeps what was recorded.
keeps_recorded ==
  pc \in {"validator", "validator_printed"}
    => /\ extends(errors', errors)
       /\ extends(warnings', warnings)
       /\ Len(calls') > Len(calls)
            => (result' = "False" <=> Len(errors') > Len(errors))

\* print_results returned True exactly when no call so far recorded an error.
printed_all_calls ==
  pc = "validator_printed"
    => /\ (report = "PASSED") <=> (\A i \in 1..Len(calls) : calls[i] = "True")
       /\ (report = "PASSED") <=> (errors = <<>>)

\* C29: on one CycloneDX16Validator every call of validate_json_structure or
\* validate_sbom_structure leaves the errors and warnings recorded before it
\* in place and adds its own at the end, and print_results returns True
\* exactly when every call made on the validator so far returned True, that
\* is when none recorded an error.
C29_AppendOnly == [][keeps_recorded]_vars /\ []printed_all_calls

\* A validator used three times, whose first call recorded an error and whose
\* later calls recorded none: print_results returns False.
C29_Witness ==
  /\ pc = "validator_printed"
  /\ calls = <<"False", "True", "True">>
  /\ report = "FAILED"
  /\ errors # <<>>

\* A validator whose second call was given a document of version 1.0, a
\* float: the call recorded the error of the version after what the first
\* call left, and print_results returns False.
C29_WitnessNotInteger ==
  /\ pc = "validator_printed"
  /\ Len(calls) >= 2 /\ calls[2] = "False"
  /\ report = "FAILED"
  /\ "Invalid version: 1.0, must be integer >= 1" \in Range(errors)

\* The versions whose turn of the loop of run_complete_validation is over,
\* and those of them whose data file was there.
turns_over == Range(complete_versions) \ Range(versions)

loaded == {v \in turns_over : files[v].present}

clean ==
  {v \in loaded : validate_complete_cyclonedx_schema(files[v].data, v) = <<>>}

\* C30: after every turn of the loop of run_complete_validation total_tests
\* counts the versions whose data file was loaded and passed_tests those of
\* them with no issue, so that passed_tests <= total_tests <= 4 and a missing
\* file counts in neither, and the exit code is 0 exactly when every loaded
\* version had no issue, that is when passed_tests = total_tests.
C30_ExitCode ==
  pc \in {"complete_main", "complete_exit"}
    => /\ total_tests = Cardinality(loaded)
       /\ passed_tests = Cardinality(clean)
       /\ passed_tests <= total_tests /\ total_tests <= 4
       /\ pc = "complete_exit"
            => /\ (report = "0") <=> (passed_tests = total_tests)
               /\ (report = "0") <=> (clean = loaded)

\* A run with one data file missing and the other three without issues:
\* three tests of three passed and the exit code is 0.
C30_Witness ==
  /\ pc = "complete_exit"
  /\ \E v \in Range(complete_versions) : ~files[v].present
  /\ total_tests = 3
  /\ passed_tests = 3
  /\ report = "0"

\* A run with one data file missing and one with issues: exit code 1.
C30_WitnessFailed ==
  /\ pc = "complete_exit"
  /\ \E v \in Range(complete_versions) : ~files[v].present
  /\ total_tests = 3
  /\ passed_tests = 2
  /\ report = "1"

====
